---- MODULE Spec2Model ----
(***************************************************************************)
(* The resilient API-access layer of the crypto MCP server: the token      *)
(* bucket RateLimiter, the TTL/LRU CryptoCache, handle_api_error, the      *)
(* retry loop of CoinMarketCapClient._make_request and the tool handlers   *)
(* get_cryptocurrency_price / get_top_cryptocurrencies that sit on top.    *)
(*                                                                         *)
(* Time is the integer clock `now` (seconds).  The handlers are asyncio    *)
(* coroutines: the code between two suspension points (an HTTP await or an *)
(* asyncio.sleep) runs atomically, so each action is one such segment.     *)
(***************************************************************************)
EXTENDS Integers, Sequences, FiniteSets, TLC

----------------------------------------------------------------------------
(* Bounds of the model *)

\* largest max_retries the client is constructed with
MaxRetries == 2
\* most keyword arguments passed to _generate_key
MaxKwargs == 2
\* the clock stops advancing here
MaxTime == 6
\* most entries of the upstream directory (cryptocurrency/map)
MaxDirectory == 3
\* rate_limit_requests / rate_limit_period the client is constructed with
\* (0.5 token per second, as with the defaults 30 / 60)
requests_per_period == 1
period_seconds == 2
\* cache_ttl_seconds / cache_max_size the cache is constructed with
ttl_seconds == 3
max_size == 2

\* the concurrent callers (tool invocations in flight)
Procs == {1, 2}

Min(a, b) == IF a <= b THEN a ELSE b
Max(a, b) == IF a >= b THEN a ELSE b
CeilDiv(a, b) == (a + b - 1) \div b

\* a backoff that does not grow
FixedBackoff(n) == 2

\* 2 ** n
RECURSIVE Pow2(_)
Pow2(n) == IF n <= 0 THEN 1 ELSE 2 * Pow2(n - 1)

----------------------------------------------------------------------------
(* Strings are sequences of one-character strings.                          *)

Upper == {"B", "T", "C", "E", "H"}

\* str.upper() on one character
UpperChar(c) ==
    CASE c = "b" -> "B"
      [] c = "t" -> "T"
      [] c = "c" -> "C"
      [] c = "e" -> "E"
      [] c = "h" -> "H"
      [] OTHER -> c

StrUpper(s) == [i \in 1..Len(s) |-> UpperChar(s[i])]

\* str.lower() on one character
LowerChar(c) ==
    CASE c = "B" -> "b"
      [] c = "T" -> "t"
      [] c = "C" -> "c"
      [] c = "E" -> "e"
      [] c = "H" -> "h"
      [] c = "I" -> "i"
      [] OTHER -> c

StrLower(s) == [i \in 1..Len(s) |-> LowerChar(s[i])]

\* sub in s
Contains(sub, s) ==
    \E i \in 0..(Len(s) - Len(sub)) : SubSeq(s, i + 1, i + Len(sub)) = sub

RECURSIVE LStrip(_)
LStrip(s) == IF s # <<>> /\ Head(s) = " " THEN LStrip(Tail(s)) ELSE s

RECURSIVE RStrip(_)
RStrip(s) ==
    IF s # <<>> /\ s[Len(s)] = " " THEN RStrip(SubSeq(s, 1, Len(s) - 1)) ELSE s

\* str.strip()
Strip(s) == RStrip(LStrip(s))

\* str.split(","): the pieces between commas, "" included
RECURSIVE SplitAcc(_, _, _)
SplitAcc(s, cur, acc) ==
    IF s = <<>> THEN Append(acc, cur)
    ELSE IF Head(s) = "," THEN SplitAcc(Tail(s), <<>>, Append(acc, cur))
    ELSE SplitAcc(Tail(s), Append(cur, Head(s)), acc)

Split(s) == SplitAcc(s, <<>>, <<>>)

\* ",".join(list)
RECURSIVE Join(_)
Join(l) ==
    IF l = <<>> THEN <<>>
    ELSE IF Len(l) = 1 THEN l[1]
    ELSE l[1] \o <<",">> \o Join(Tail(l))

\* re.match(r'^[A-Z0-9-]+$', symbol)
SymbolChars == Upper \cup {"0", "1", "-"}
MatchesSymbolFormat(s) == s # <<>> /\ \A i \in 1..Len(s) : s[i] \in SymbolChars

MaxSymbolLen == 10

\* validate_symbol: [ok, val] with val the normalized symbol, or the error
validate_symbol(symbol) ==
    IF symbol = <<>> THEN [ok |-> FALSE, val |-> <<>>, err |-> "Symbol cannot be empty"]
    ELSE LET s == StrUpper(Strip(symbol)) IN
        IF ~MatchesSymbolFormat(s)
            THEN [ok |-> FALSE, val |-> <<>>, err |-> "Invalid symbol format"]
        ELSE IF Len(s) > MaxSymbolLen
            THEN [ok |-> FALSE, val |-> <<>>, err |-> "Symbol too long"]
        ELSE [ok |-> TRUE, val |-> s, err |-> ""]

\* validate_symbols on a str: split on commas, strip, validate each in order
validate_symbols(symbols) ==
    LET parts == [i \in 1..Len(Split(symbols)) |-> Strip(Split(symbols)[i])]
        res == [i \in 1..Len(parts) |-> validate_symbol(parts[i])]
        bad == {i \in 1..Len(parts) : ~res[i].ok}
    IN IF bad = {}
        THEN [ok |-> TRUE, val |-> [i \in 1..Len(parts) |-> res[i].val], err |-> ""]
        ELSE [ok |-> FALSE, val |-> <<>>,
              err |-> res[CHOOSE i \in bad : \A j \in bad : i <= j].err]

\* validate_limit with the upper end of the range off by one
validate_limit_lax(limit, min_val, max_val) ==
    IF ~(min_val <= limit /\ limit <= max_val + 1)
        THEN [ok |-> FALSE, val |-> 0, err |-> "Limit must be between"]
        ELSE [ok |-> TRUE, val |-> limit, err |-> ""]

\* validate_limit
validate_limit(limit, min_val, max_val) ==
    IF ~(min_val <= limit /\ limit <= max_val)
        THEN [ok |-> FALSE, val |-> 0, err |-> "Limit must be between"]
        ELSE [ok |-> TRUE, val |-> limit, err |-> ""]

TopLimitMin == 1
TopLimitMax == 5000

----------------------------------------------------------------------------
(* Values of keyword arguments and request parameters, in one shape.        *)

StrVal(s) == [tag |-> "str", s |-> s, n |-> 0]
IntVal(n) == [tag |-> "int", s |-> <<>>, n |-> n]
NoneVal == [tag |-> "null", s |-> <<>>, n |-> 0]
\* a tuple and a list of numbers, written as their digits, and a dict
TupleVal(s) == [tag |-> "tuple", s |-> s, n |-> 0]
ListVal(s) == [tag |-> "list", s |-> s, n |-> 0]
DictVal(s) == [tag |-> "dict", s |-> s, n |-> 0]
Item(name, val) == [name |-> name, val |-> val]

USD == <<"U", "S", "D">>
EUR == <<"E", "U", "R">>

\* the keyword names in Python's string order
NameOrder ==
    <<"args", "convert", "count", "interval", "kwargs", "limit", "sort",
      "sort_dir", "start", "symbol", "symbols", "time_end", "time_start">>
Rank(name) == CHOOSE i \in 1..Len(NameOrder) : NameOrder[i] = name

RECURSIVE InsertItem(_, _)
InsertItem(item, sorted) ==
    IF sorted = <<>> THEN <<item>>
    ELSE IF Rank(item.name) <= Rank(Head(sorted).name) THEN <<item>> \o sorted
    ELSE <<Head(sorted)>> \o InsertItem(item, Tail(sorted))

\* the items in the order they were passed
UnsortedItems(items) == items

\* sorted(kwargs.items())
RECURSIVE SortItems(_)
SortItems(items) ==
    IF items = <<>> THEN <<>> ELSE InsertItem(Head(items), SortItems(Tail(items)))

\* json.dumps of a value: JSON has one array type, a tuple is written as a
\* list is; strings, numbers and None are written each in its own form
JsonDumps(val) == IF val.tag = "tuple" THEN [val EXCEPT !.tag = "list"] ELSE val

\* CryptoCache._generate_key: prefix + ":" + md5(json.dumps(sorted items)).
\* The digest is kept as the serialized data it is computed from.
generate_key(prefix, kwargs) ==
    [prefix |-> prefix,
     hash |-> [i \in 1..Len(kwargs) |->
                    Item(SortItems(kwargs)[i].name, JsonDumps(SortItems(kwargs)[i].val))]]

NoKey == [prefix |-> "", hash |-> <<>>]

\* sanitize_parameters: drop the parameters whose value is None
sanitize_parameters(params) == SelectSeq(params, LAMBDA it : it.val.tag # "null")

----------------------------------------------------------------------------
(* RateLimiter.  `tokens` holds self.tokens * period_seconds, so that the   *)
(* refill (elapsed / period_seconds) * requests_per_period stays integral.  *)

TokenUnit == period_seconds
FullBucket == requests_per_period * TokenUnit

\* a refill at half the rate
refill_tokens_slow(tok, lu, t) ==
    [tokens |-> Min(FullBucket, tok + ((t - lu) * requests_per_period) \div 2),
     last_update |-> t]

\* a refill without the cap
refill_tokens_uncapped(tok, lu, t) ==
    [tokens |-> tok + (t - lu) * requests_per_period, last_update |-> t]

\* a refill that adds nothing
refill_tokens_never(tok, lu, t) == [tokens |-> tok, last_update |-> t]

\* a refill capped one token above the bucket's size
refill_tokens_overfull(tok, lu, t) ==
    [tokens |-> Min(FullBucket + TokenUnit, tok + (t - lu) * requests_per_period),
     last_update |-> t]

\* _refill_tokens at time t
refill_tokens(tok, lu, t) ==
    [tokens |-> Min(FullBucket, tok + (t - lu) * requests_per_period),
     last_update |-> t]

\* an acquire that takes nothing out of the bucket
acquire_free(tok, lu, n, t) ==
    LET r == refill_tokens(tok, lu, t) IN
    [ok |-> r.tokens >= n * TokenUnit, tokens |-> r.tokens, last_update |-> t]

\* acquire(n) at time t
acquire(tok, lu, n, t) ==
    LET r == refill_tokens(tok, lu, t) IN
    IF r.tokens >= n * TokenUnit
        THEN [ok |-> TRUE, tokens |-> r.tokens - n * TokenUnit, last_update |-> t]
        ELSE [ok |-> FALSE, tokens |-> r.tokens, last_update |-> t]

\* wait_for_token's sleep, max(0.1, (n - tokens) / requests_per_period *
\* period_seconds), rounded up to the next tick of the clock
WaitSeconds(tok, n) ==
    CeilDiv(Max(requests_per_period, 10 * (n * TokenUnit - tok)),
            10 * requests_per_period)

----------------------------------------------------------------------------
(* CryptoCache over cachetools.TTLCache: `cache` lists the entries from the *)
(* least to the most recently used.                                         *)

Entry(key, value, expires) == [key |-> key, value |-> value, expires |-> expires]

HasKey(c, key) == \E i \in 1..Len(c) : c[i].key = key
IndexOf(c, key) == CHOOSE i \in 1..Len(c) : c[i].key = key
Without(c, key) == SelectSeq(c, LAMBDA e : e.key # key)

\* TTLCache.expire(time)
Expire(c, t) == SelectSeq(c, LAMBDA e : t < e.expires)

\* an entry that never expires
LiveForever(c, key, t) == HasKey(c, key)

Live(c, key, t) == HasKey(c, key) /\ t < c[IndexOf(c, key)].expires

\* the value get returns for None
NoValue == [tool |-> "", convert |-> <<>>, data |-> 0]

\* a get that counts no miss
CacheGetUncounted(c, st, key, t) ==
    IF Live(c, key, t)
        THEN LET e == c[IndexOf(c, key)] IN
             [hit |-> TRUE, value |-> e.value,
              cache |-> Append(Without(c, key), e),
              stats |-> [st EXCEPT !.hits = @ + 1]]
        ELSE [hit |-> FALSE, value |-> NoValue, cache |-> c, stats |-> st]

\* a get that leaves the recency order alone
CacheGetNoTouch(c, st, key, t) ==
    IF Live(c, key, t)
        THEN [hit |-> TRUE, value |-> c[IndexOf(c, key)].value,
              cache |-> c,
              stats |-> [st EXCEPT !.hits = @ + 1]]
        ELSE [hit |-> FALSE, value |-> NoValue, cache |-> c,
              stats |-> [st EXCEPT !.misses = @ + 1]]

\* a get whose hit gives the entry a new ttl
CacheGetRefresh(c, st, key, t) ==
    IF Live(c, key, t)
        THEN LET e == c[IndexOf(c, key)] IN
             [hit |-> TRUE, value |-> e.value,
              cache |-> Append(Without(c, key), Entry(key, e.value, t + ttl_seconds)),
              stats |-> [st EXCEPT !.hits = @ + 1]]
        ELSE [hit |-> FALSE, value |-> NoValue, cache |-> c,
              stats |-> [st EXCEPT !.misses = @ + 1]]

\* a get that takes a stored None for a value like any other
CacheGetNoneHit(c, st, key, t) ==
    IF Live(c, key, t)
        THEN LET e == c[IndexOf(c, key)] IN
             [hit |-> TRUE, value |-> e.value,
              cache |-> Append(Without(c, key), e),
              stats |-> [st EXCEPT !.hits = @ + 1]]
        ELSE [hit |-> FALSE, value |-> NoValue, cache |-> c,
              stats |-> [st EXCEPT !.misses = @ + 1]]

\* a get that remembers a miss: it stores the error text under the key
CacheGetNegative(c, st, key, t) ==
    IF Live(c, key, t)
        THEN LET e == c[IndexOf(c, key)] IN
             [hit |-> TRUE, value |-> e.value,
              cache |-> Append(Without(c, key), e),
              stats |-> [st EXCEPT !.hits = @ + 1]]
        ELSE [hit |-> FALSE, value |-> NoValue,
              cache |-> Append(Without(c, key),
                               Entry(key, [tool |-> "Error", convert |-> <<>>, data |-> 0],
                                     t + ttl_seconds)),
              stats |-> [st EXCEPT !.misses = @ + 1]]

\* CryptoCache.get at time t: the value (or a miss), the recency order and
\* the counters after it
CacheGet(c, st, key, t) ==
    IF Live(c, key, t)
        THEN LET e == c[IndexOf(c, key)] IN
             \* value = self._cache.get(key); if value is not None
             IF e.value # [tool |-> "", convert |-> <<>>, data |-> 0]
                THEN [hit |-> TRUE, value |-> e.value,
                      cache |-> Append(Without(c, key), e),
                      stats |-> [st EXCEPT !.hits = @ + 1]]
                ELSE [hit |-> FALSE, value |-> e.value,
                      cache |-> Append(Without(c, key), e),
                      stats |-> [st EXCEPT !.misses = @ + 1]]
        ELSE [hit |-> FALSE, value |-> [tool |-> "", convert |-> <<>>, data |-> 0],
              cache |-> c,
              stats |-> [st EXCEPT !.misses = @ + 1]]

RECURSIVE EvictTo(_, _)
EvictTo(c, room) == IF Len(c) > room THEN EvictTo(Tail(c), room) ELSE c

\* a set that stores nothing
CacheSetDropped(c, st, key, value, t) == [cache |-> c, stats |-> st]

\* a set that leaves an entry that is already there as it is
CacheSetKeepFirst(c, st, key, value, t) ==
    LET live == Expire(c, t) IN
    IF HasKey(live, key)
        THEN [cache |-> live, stats |-> [st EXCEPT !.sets = @ + 1]]
        ELSE [cache |-> Append(EvictTo(live, max_size - 1),
                               Entry(key, value, t + ttl_seconds)),
              stats |-> [st EXCEPT !.sets = @ + 1]]

\* a set that makes room for nothing
CacheSetNoEvict(c, st, key, value, t) ==
    [cache |-> Append(Without(Expire(c, t), key), Entry(key, value, t + ttl_seconds)),
     stats |-> [st EXCEPT !.sets = @ + 1]]

\* CryptoCache.set at time t
CacheSet(c, st, key, value, t) ==
    IF max_size < 1
        THEN [cache |-> c, stats |-> st]
        ELSE LET live == Expire(c, t)
                 kept == IF HasKey(live, key) THEN Without(live, key)
                         ELSE EvictTo(live, max_size - 1)
             IN [cache |-> Append(kept, Entry(key, value, t + ttl_seconds)),
                 stats |-> [st EXCEPT !.sets = @ + 1]]

\* CryptoCache.delete: del self._cache[key], a KeyError is swallowed
CacheDelete(c, key) == Without(c, key)

\* a clear that leaves the most recently used entry
CacheClearButLast(c) == IF c = <<>> THEN c ELSE <<c[Len(c)]>>

\* CryptoCache.clear
CacheClear(c) == <<>>

\* an invalidation that takes every entry with it
CacheInvalidateAll(c, prefix, t) == [cache |-> <<>>, n |-> Len(Expire(c, t))]

\* CryptoCache.invalidate_pattern(prefix + ":") at time t: the keys() of a
\* TTLCache are the unexpired ones
CacheInvalidate(c, prefix, t) ==
    LET hit(e) == e.key.prefix = prefix /\ t < e.expires IN
    [cache |-> SelectSeq(c, LAMBDA e : ~hit(e)),
     n |-> Len(SelectSeq(c, hit))]

\* CryptoCache.get_stats at time t: the counters of _stats as they are, the
\* number of unexpired entries, and the hit rate in hundredths of a percent
get_stats(c, st, t) ==
    LET total_requests == st.hits + st.misses IN
    [hits |-> st.hits, misses |-> st.misses, sets |-> st.sets,
     evictions |-> st.evictions,
     size |-> Len(Expire(c, t)),
     max_size |-> max_size,
     hit_rate |-> IF total_requests > 0
                    THEN (st.hits * 20000 + total_requests) \div (2 * total_requests)
                    ELSE 0,
     total_requests |-> total_requests]

----------------------------------------------------------------------------
(* Errors *)

Exc(type, status, wrapped) == [type |-> type, status |-> status, wrapped |-> wrapped]
NoExc == Exc("None", 0, FALSE)

\* handle_api_error: the exception raised for a non-200 status
handle_api_error(status_code) ==
    IF status_code = 401 THEN Exc("AuthenticationError", status_code, FALSE)
    ELSE IF status_code = 429 THEN Exc("RateLimitError", status_code, FALSE)
    ELSE IF status_code = 400 THEN Exc("InvalidParameterError", status_code, FALSE)
    ELSE IF status_code = 404 THEN Exc("CryptocurrencyNotFoundError", status_code, FALSE)
    ELSE IF status_code >= 500 THEN Exc("APIConnectionError", status_code, FALSE)
    ELSE Exc("APIError", status_code, FALSE)

\* the decoded body of an error response: the kind of JSON value it is,
\* what its "status" member is and whether that carries "error_message"
Body(json, status, error_message) ==
    [json |-> json, status |-> status, error_message |-> error_message]
NoBody == Body("none", "absent", "absent")

\* error_message = response_data.get("status", {}).get("error_message",
\* "Unknown error"): the text, or the exception of a value without .get
error_message(response_data) ==
    IF response_data.json # "dict"
        THEN [raised |-> Exc("AttributeError", 0, FALSE), text |-> ""]
    ELSE IF response_data.status = "absent"
        THEN [raised |-> NoExc, text |-> "Unknown error"]
    ELSE IF response_data.status # "dict"
        THEN [raised |-> Exc("AttributeError", 0, FALSE), text |-> ""]
    ELSE IF response_data.error_message = "absent"
        THEN [raised |-> NoExc, text |-> "Unknown error"]
    ELSE [raised |-> NoExc, text |-> "upstream message"]

\* str(e) of the exception handle_api_error raises: what is put before the
\* error message, and the status code when the text holds it
NoMessage == [prefix |-> "", status_code |-> 0, error_message |-> ""]
ExcMessage(status_code, text) ==
    IF status_code \in {401, 429, 400, 404}
        THEN [prefix |-> "", status_code |-> 0, error_message |-> text]
    ELSE IF status_code >= 500
        THEN [prefix |-> "Server error: ", status_code |-> 0, error_message |-> text]
    ELSE [prefix |-> "API error (status ): ", status_code |-> status_code,
          error_message |-> text]

\* What one HTTP attempt can come to: a response (its status, whether its
\* body and, when it decodes as JSON, the data it carries) or a transport failure
Resp(status, json, data) ==
    [kind |-> "response", status |-> status, json |-> json, data |-> data]
TimeoutOutcome == [kind |-> "timeout", status |-> 0, json |-> FALSE, data |-> 0]
ConnectOutcome == [kind |-> "connect", status |-> 0, json |-> FALSE, data |-> 0]
NoOutcome == [kind |-> "none", status |-> 0, json |-> FALSE, data |-> 0]

\* the upstream data of a successful response: two versions of the market
Payloads == {1, 2}
\* a JSON payload whose quote lacks the required field `price`
MissingPrice == 3
ErrorStatuses == {201, 400, 401, 403, 404, 429, 500}
Outcomes ==
    {Resp(200, TRUE, d) : d \in Payloads \cup {MissingPrice}}
        \cup {Resp(s, TRUE, 0) : s \in ErrorStatuses}
        \cup {Resp(200, FALSE, 0), TimeoutOutcome, ConnectOutcome}

\* parse_cryptocurrency_data / parse_cryptocurrency_list, Cryptocurrency(**data):
\* the exception pydantic raises on the decoded data, NoExc when it validates
parse_cryptocurrency_data(data) ==
    IF data = MissingPrice THEN Exc("pydantic.ValidationError", 200, FALSE)
    ELSE NoExc

\* decoded global metrics that lack a required field
MissingMetric == 3
\* decoded global metrics whose quote has no entry for the currency asked for
EmptyQuote == 4

\* parse_global_metrics, GlobalMetrics(**data): the exception pydantic raises
\* on the decoded data, NoExc when it validates
parse_global_metrics(data) ==
    IF data = MissingMetric THEN Exc("pydantic.ValidationError", 200, FALSE)
    ELSE NoExc

\* the body of the try block of _make_request: the exception it raises on
\* the outcome o, NoExc when it returns the decoded body
TryBody(o) ==
    IF o.kind = "timeout" THEN Exc("httpx.TimeoutException", 0, FALSE)
    ELSE IF o.kind = "connect" THEN Exc("httpx.ConnectError", 0, FALSE)
    ELSE IF o.status = 200
        THEN (IF o.json THEN NoExc ELSE Exc("JSONDecodeError", 200, FALSE))
    ELSE handle_api_error(o.status)

\* the except clauses with RateLimitError left out of the non-retryable ones
ExceptAuthOnly(e) ==
    IF e.type = "httpx.TimeoutException"
        THEN [reraise |-> FALSE, exc |-> Exc("APITimeoutError", 0, FALSE)]
    ELSE IF e.type = "httpx.ConnectError"
        THEN [reraise |-> FALSE, exc |-> Exc("APIConnectionError", 0, FALSE)]
    ELSE IF e.type = "AuthenticationError"
        THEN [reraise |-> TRUE, exc |-> e]
    ELSE [reraise |-> FALSE, exc |-> Exc("APIError", e.status, TRUE)]

\* the except clauses of _make_request: raise (reraise = TRUE) or record
\* last_exception and go on to the retry
Except(e) ==
    IF e.type = "httpx.TimeoutException"
        THEN [reraise |-> FALSE, exc |-> Exc("APITimeoutError", 0, FALSE)]
    ELSE IF e.type = "httpx.ConnectError"
        THEN [reraise |-> FALSE, exc |-> Exc("APIConnectionError", 0, FALSE)]
    ELSE IF e.type \in {"AuthenticationError", "RateLimitError"}
        THEN [reraise |-> TRUE, exc |-> e]
    ELSE [reraise |-> FALSE, exc |-> Exc("APIError", e.status, TRUE)]

----------------------------------------------------------------------------
(* State *)

VARIABLES
    now,            \* the clock (time.time / time.monotonic), in seconds
    max_retries,    \* CoinMarketCapClient.max_retries
    tokens,         \* RateLimiter.tokens, in units of 1 / period_seconds
    last_update,    \* RateLimiter.last_update
    cache,          \* CryptoCache._cache, least recently used first
    stats,          \* CryptoCache._stats
    call,           \* per caller: the tool invocation and its locals
    http_total,     \* HTTP requests issued by the client so far
    upstream,       \* the outcomes the API and the network give in this run
    keygen,         \* _generate_key calls: their arguments and the keys returned
    cache_use,      \* direct use of CryptoCache: the last operation and its result
    limiter_use,    \* direct use of RateLimiter: the acquire results, the waiters
    error_use,      \* handle_api_error calls: their arguments and what they raised
    search_use,     \* a search_cryptocurrencies call: the directory and the results
    params_use,     \* a sanitize_parameters call: its argument and its result
    construction,   \* CoinMarketCapClient(...): the arguments and what __init__ did
    cached_use      \* a function wrapped by cached: its calls and its executions

\* the callers of the utilities other than the tool handlers
direct ==
    <<keygen, cache_use, limiter_use, error_use, search_use, params_use, construction, cached_use>>

vars ==
    <<now, max_retries, tokens, last_update, cache, stats, call, http_total,
      upstream, keygen, cache_use, limiter_use, error_use, search_use, params_use,
      construction, cached_use>>

NoText == [tool |-> "", convert |-> <<>>, data |-> 0]
NoResult == [status |-> "none", exc |-> NoExc, text |-> NoText]

\* the text a tool returns for a caught exception: "Error: " + str(e)
ErrorText == [tool |-> "Error", convert |-> <<>>, data |-> 0]

\* a caller without an invocation
Idle ==
    [pc |-> "idle", tool |-> "", symbols |-> <<>>, limit |-> 0, convert |-> <<>>,
     \* locals of the handler and of _make_request
     symbol_list |-> <<>>, cache_key |-> NoKey, params |-> <<>>, metrics |-> 0,
     retries |-> 0, last_exception |-> NoExc, wake |-> 0,
     \* what the invocation has done so far
     cache_hit |-> FALSE, api_calls |-> 0, http_count |-> 0, tokens_taken |-> 0,
     sleeps |-> <<>>, last_outcome |-> NoOutcome, all_timeout |-> TRUE,
     set_at |-> 0, result |-> NoResult]

\* an invocation that has arrived and is not yet handled
PricePending(symbols, convert) ==
    [Idle EXCEPT !.pc = "pending", !.tool = "price", !.symbols = symbols,
                 !.convert = convert]
TopPending(limit, convert) ==
    [Idle EXCEPT !.pc = "pending", !.tool = "top", !.limit = limit,
                 !.convert = convert]
StatsPending(convert) ==
    [Idle EXCEPT !.pc = "pending", !.tool = "stats", !.convert = convert]

\* the _generate_key calls compared with each other
KeyCalls == {1, 2}
NoKeyCall == [pc |-> "idle", prefix |-> "", kwargs |-> <<>>, key |-> NoKey]

\* the keys used on the cache directly: one more than it holds, under two
\* prefixes
CacheKey(i) ==
    generate_key(IF i % 2 = 1 THEN "price" ELSE "top", <<Item("limit", IntVal(i))>>)
CacheKeys == {CacheKey(i) : i \in 1..(max_size + 1)}
CachePrefixes == {"price", "top"}
\* the values set: two texts taken in turn, so that a set of a key that is
\* already there changes its value
CacheValue(n) == [tool |-> "price", convert |-> <<"U", "S", "D">>, data |-> 1 + (n % 2)]

\* no set of the key so far, or a delete / clear / invalidate since
NoWrite == [at |-> 0 - 1, value |-> NoValue]
NoCacheOp == [op |-> "none", key |-> NoKey, ret |-> NoValue, n |-> 0]

\* CryptoCache not yet used directly.  `last` is the last operation and what
\* it returned; `written` the latest set of each key, `recency` the keys from
\* the least to the most recently used by a set or a get that returned them,
\* `overflowed` whether more keys were set than the cache holds, `cleared`
\* the keys that were set before a clear and have not been set since
NoCacheUse ==
    [ops |-> 0, last |-> NoCacheOp, written |-> [k \in CacheKeys |-> NoWrite],
     recency |-> <<>>, overflowed |-> FALSE, cleared |-> {}]

\* RateLimiter not yet used directly.  `log` lists the acquire calls with
\* their results, `waiter` the wait_for_token calls in progress; `began` is
\* the place in the log of the first acquire of the wait_for_token call an
\* acquire belongs to, 0 for an acquire called on its own
NoWaiter == [pc |-> "idle", n |-> 0, wake |-> 0, began |-> 0]
NoLimiterUse == [log |-> <<>>, waiter |-> [p \in Procs |-> NoWaiter]]

\* the functions called on their own, not called
ErrorCalls == {1, 2}
NoErrorCall ==
    [pc |-> "idle", status_code |-> 0, response_data |-> NoBody, raised |-> NoExc,
     message |-> NoMessage]
NoSearch == [pc |-> "idle", directory |-> <<>>, query |-> <<>>, limit |-> 0,
             results |-> <<>>]
NoParams == [pc |-> "idle", params |-> <<>>, result |-> <<>>]
NoConstruction ==
    [pc |-> "idle", api_key |-> NoneVal, env |-> NoneVal, max_retries |-> 0,
     raised |-> NoExc, self_api_key |-> NoneVal, client |-> FALSE,
     rate_limiter |-> FALSE]

\* the arguments the wrapped function is called with: a number, and a tuple
\* and a list of the same numbers
Arguments == {IntVal(1), TupleVal(<<"1", "2">>), ListVal(<<"1", "2">>)}
NoCachedCall ==
    [pc |-> "idle", no |-> 0, arg |-> NoneVal, key |-> NoKey, hit |-> FALSE,
     result |-> NoValue]
\* is_async: inspect.iscoroutinefunction(func); none_for: the arguments func
\* returns None for; executed: how often func has run for each argument;
\* begun: the calls made so far, a call's `no` being its place among them
NoCachedUse ==
    [is_async |-> FALSE, none_for |-> {}, calls |-> [p \in Procs |-> NoCachedCall],
     executed |-> [x \in Arguments |-> 0], begun |-> 0]

Unused ==
    /\ error_use = [i \in ErrorCalls |-> NoErrorCall]
    /\ search_use = NoSearch
    /\ params_use = NoParams
    /\ construction = NoConstruction
    /\ cached_use = NoCachedUse

----------------------------------------------------------------------------
(* Inputs *)

BTC == <<"B", "T", "C">>
SymbolInputs ==
    { BTC,
      <<"b", "t", "c">>,
      <<"B", "T", "C", ",", "E", "T", "H">>,
      <<"b", "t", "c", ",", " ", "e", "t", "h">>,
      <<>>,
      <<"B", "T", "C", "$">>,
      <<"B", "T", "C", ",", ",", "E", "T", "H">>,
      [i \in 1..(MaxSymbolLen + 1) |-> "b"] }
LimitInputs == {TopLimitMin - 1, TopLimitMin, TopLimitMax, TopLimitMax + 1}
Converts == {USD, EUR}

AnyInvocation ==
    {PricePending(s, cv) : s \in SymbolInputs, cv \in Converts}
        \cup {TopPending(l, cv) : l \in LimitInputs, cv \in Converts}
ValidInvocation == {PricePending(BTC, USD), TopPending(TopLimitMin, USD)}

\* the utilities as constructed
InitUtils ==
    /\ now = 0
    /\ last_update = 0
    /\ cache = <<>>
    /\ stats = [hits |-> 0, misses |-> 0, sets |-> 0, evictions |-> 0]
    /\ http_total = 0

\* the server: the utilities are used through the tool handlers only
InitCommon ==
    /\ InitUtils
    /\ keygen = [i \in KeyCalls |-> NoKeyCall]
    /\ cache_use = NoCacheUse
    /\ limiter_use = NoLimiterUse
    /\ Unused

\* one logical call through the client, for every max_retries, on a limiter
\* that is full or has been drained by earlier traffic
Init ==
    /\ InitCommon
    /\ max_retries \in (0 - 1)..MaxRetries
    /\ upstream = Outcomes
    /\ tokens \in {0, FullBucket}
    /\ \E c \in ValidInvocation, q \in Procs :
            call = [p \in Procs |-> IF p = q THEN c ELSE Idle]

\* concurrent logical calls sharing the client
InitConc ==
    /\ InitCommon
    /\ max_retries = 1
    /\ upstream = {Resp(200, TRUE, 1), Resp(500, TRUE, 0), TimeoutOutcome}
    /\ tokens = FullBucket
    /\ call \in [Procs -> ValidInvocation]

\* concurrent tool invocations over every input
InitTool ==
    /\ InitCommon
    /\ max_retries = 1
    /\ upstream = {Resp(200, TRUE, d) : d \in Payloads} \cup {TimeoutOutcome}
    /\ tokens = FullBucket
    /\ call \in {f \in [Procs -> AnyInvocation] :
                    \A p \in Procs : p # 1 => f[p].convert = USD}

----------------------------------------------------------------------------
(* The tool handlers' ends *)

\* the locals of _make_request go away with the call
Ended(c) == [c EXCEPT !.pc = "done", !.retries = 0, !.last_exception = NoExc,
                      !.wake = 0]

\* a handler that ends on an exception with an empty answer
FailedSilently(c, e) ==
    [Ended(c) EXCEPT !.result = [status |-> "ok", exc |-> NoExc, text |-> NoText]]

\* a handler that answers with the metrics it has when something fails
FailedPartial(c, e) ==
    [Ended(c) EXCEPT !.result =
        IF c.tool = "stats" /\ c.metrics # 0
            THEN [status |-> "ok", exc |-> NoExc,
                  text |-> [tool |-> c.tool, convert |-> c.convert,
                            data |-> 10 * c.metrics]]
            ELSE [status |-> "error", exc |-> e, text |-> ErrorText]]

\* except Exception as e: return [TextContent(text=f"Error: {str(e)}")]
Failed(c, e) ==
    [Ended(c) EXCEPT !.result = [status |-> "error", exc |-> e, text |-> ErrorText]]

\* return [TextContent(type="text", text=...)]
Returned(c, text) ==
    [Ended(c) EXCEPT !.result = [status |-> "ok", exc |-> NoExc, text |-> text]]

\* the response text of a tool, from the decoded upstream data
FormatText(c, data) == [tool |-> c.tool, convert |-> c.convert, data |-> data]

----------------------------------------------------------------------------
(* CoinMarketCapClient._make_request *)

\* a raise after the loop that forgets the recorded exception
MaxRetriesExceededGeneric(c) == Exc("APIError", 0, FALSE)

\* raise last_exception or APIError("Max retries exceeded")
MaxRetriesExceeded(c) ==
    IF c.last_exception # NoExc THEN c.last_exception ELSE Exc("APIError", 0, FALSE)

\* the head of `while retries <= self.max_retries`: issue the next HTTP
\* request, or leave the loop and raise
LoopHead(p, c) ==
    IF c.retries <= max_retries
        THEN /\ call' = [call EXCEPT ![p] =
                    [c EXCEPT !.pc = "http", !.http_count = @ + 1]]
             /\ http_total' = http_total + 1
        ELSE /\ call' = [call EXCEPT ![p] =
                    Failed(c, MaxRetriesExceeded(c))]
             /\ UNCHANGED http_total

\* one round of wait_for_token(1): acquire, and either go on into the retry
\* loop or sleep
WaitForToken(p, c) ==
    LET a == acquire(tokens, last_update, 1, now) IN
    /\ tokens' = a.tokens
    /\ last_update' = a.last_update
    /\ IF a.ok
        THEN LoopHead(p, [c EXCEPT !.tokens_taken = @ + 1, !.retries = 0,
                                   !.last_exception = NoExc, !.wake = 0])
        ELSE /\ call' = [call EXCEPT ![p] =
                    [c EXCEPT !.pc = "wait_token",
                              !.wake = now + WaitSeconds(a.tokens, 1)]]
             /\ UNCHANGED http_total

\* _make_request up to its first suspension
MakeRequest(p, c, params) ==
    WaitForToken(p, [c EXCEPT !.params = sanitize_parameters(params),
                              !.api_calls = @ + 1])

----------------------------------------------------------------------------
(* Actions *)

\* RealtimeTools.get_cryptocurrency_price(symbols, convert), to its first
\* suspension
GetCryptocurrencyPrice(p) ==
    /\ call[p].pc = "pending"
    /\ call[p].tool = "price"
    /\ UNCHANGED <<now, max_retries, upstream, direct>>
    /\ LET c0 == call[p]
           v == validate_symbols(c0.symbols)
       IN
       IF ~v.ok
       THEN /\ call' = [call EXCEPT ![p] = Failed(c0, Exc("ValueError", 0, FALSE))]
            /\ UNCHANGED <<tokens, last_update, cache, stats, http_total>>
       ELSE LET key == generate_key("price", <<Item("symbols", StrVal(c0.symbols)),
                                               Item("convert", StrVal(c0.convert))>>)
                g == CacheGet(cache, stats, key, now)
                c1 == [c0 EXCEPT !.symbol_list = v.val, !.cache_key = key]
            IN
            /\ cache' = g.cache
            /\ stats' = g.stats
            /\ IF g.hit
               THEN /\ call' = [call EXCEPT ![p] =
                           Returned([c1 EXCEPT !.cache_hit = TRUE], g.value)]
                    /\ UNCHANGED <<tokens, last_update, http_total>>
               ELSE \* get_cryptocurrency_quotes(symbols=symbol_list, convert)
                    MakeRequest(p, c1, <<Item("convert", StrVal(c0.convert)),
                                         Item("symbol", StrVal(Join(v.val)))>>)

\* RealtimeTools.get_top_cryptocurrencies(limit, convert), to its first
\* suspension
GetTopCryptocurrencies(p) ==
    /\ call[p].pc = "pending"
    /\ call[p].tool = "top"
    /\ UNCHANGED <<now, max_retries, upstream, direct>>
    /\ LET c0 == call[p]
           v == validate_limit(c0.limit, TopLimitMin, TopLimitMax)
       IN
       IF ~v.ok
       THEN /\ call' = [call EXCEPT ![p] = Failed(c0, Exc("ValueError", 0, FALSE))]
            /\ UNCHANGED <<tokens, last_update, cache, stats, http_total>>
       ELSE LET key == generate_key("top", <<Item("limit", IntVal(v.val)),
                                             Item("convert", StrVal(c0.convert))>>)
                g == CacheGet(cache, stats, key, now)
                c1 == [c0 EXCEPT !.limit = v.val, !.cache_key = key]
            IN
            /\ cache' = g.cache
            /\ stats' = g.stats
            /\ IF g.hit
               THEN /\ call' = [call EXCEPT ![p] =
                           Returned([c1 EXCEPT !.cache_hit = TRUE], g.value)]
                    /\ UNCHANGED <<tokens, last_update, http_total>>
               ELSE \* get_cryptocurrency_listings(limit=limit, convert=convert)
                    MakeRequest(p, c1, <<Item("start", IntVal(1)),
                                         Item("limit", IntVal(v.val)),
                                         Item("convert", StrVal(c0.convert)),
                                         Item("sort", StrVal(<<"market_cap">>)),
                                         Item("sort_dir", StrVal(<<"desc">>))>>)

\* wait_for_token wakes from its sleep and tries again
TokenWake(p) ==
    /\ call[p].pc = "wait_token"
    /\ now >= call[p].wake
    /\ WaitForToken(p, call[p])
    /\ UNCHANGED <<now, max_retries, cache, stats, upstream, direct>>

\* the HTTP request of caller p completes with outcome o: the rest of the
\* loop body of _make_request and, when the call ends, the rest of the tool
\* handler
HttpResponse(p, o) ==
    /\ call[p].pc = "http"
    /\ UNCHANGED <<now, max_retries, tokens, last_update, http_total, upstream,
                   direct>>
    /\ LET c == [call[p] EXCEPT !.last_outcome = o,
                                !.all_timeout = @ /\ o.kind = "timeout"]
           e == TryBody(o)
           x == Except(e)
       IN
       IF e = NoExc
       THEN \* return data; the client operation parses it into models; the
            \* tool formats them, caches the text and returns it
            LET parsed == parse_cryptocurrency_data(o.data)
                text == FormatText(c, o.data)
                s == CacheSet(cache, stats, c.cache_key, text, now)
            IN IF parsed # NoExc
               THEN /\ UNCHANGED <<cache, stats>>
                    /\ call' = [call EXCEPT ![p] = Failed(c, parsed)]
               ELSE /\ cache' = s.cache
                    /\ stats' = s.stats
                    /\ call' = [call EXCEPT ![p] =
                            Returned([c EXCEPT !.set_at = now], text)]
       ELSE /\ UNCHANGED <<cache, stats>>
            /\ IF x.reraise
               THEN call' = [call EXCEPT ![p] = Failed(c, x.exc)]
               ELSE LET r == c.retries + 1
                        c2 == [c EXCEPT !.last_exception = x.exc, !.retries = r]
                    IN IF r <= max_retries
                       THEN call' = [call EXCEPT ![p] =
                                [c2 EXCEPT !.pc = "backoff",
                                           !.wake = now + Pow2(r),
                                           !.sleeps = Append(@, Pow2(r))]]
                       ELSE call' = [call EXCEPT ![p] =
                                Failed(c2, MaxRetriesExceeded(c2))]

\* a loop that starts counting its retries again after every sleep
BackoffWakeReset(p) ==
    /\ call[p].pc = "backoff"
    /\ now >= call[p].wake
    /\ LoopHead(p, [call[p] EXCEPT !.retries = 0])
    /\ UNCHANGED <<now, max_retries, tokens, last_update, cache, stats, upstream,
                   direct>>

\* asyncio.sleep(2 ** retries) is over: the next iteration of the loop
BackoffWake(p) ==
    /\ call[p].pc = "backoff"
    /\ now >= call[p].wake
    /\ LoopHead(p, call[p])
    /\ UNCHANGED <<now, max_retries, tokens, last_update, cache, stats, upstream,
                   direct>>

\* a second goes by
Tick ==
    /\ now < MaxTime
    /\ now' = now + 1
    /\ UNCHANGED <<max_retries, tokens, last_update, cache, stats, call, http_total,
                   upstream, direct>>

Next ==
    \/ \E p \in Procs : GetCryptocurrencyPrice(p)
    \/ \E p \in Procs : GetTopCryptocurrencies(p)
    \/ \E p \in Procs : TokenWake(p)
    \/ \E p \in Procs, o \in upstream : HttpResponse(p, o)
    \/ \E p \in Procs : BackoffWake(p)
    \/ Tick

Spec == Init /\ [][Next]_vars

----------------------------------------------------------------------------
(* AnalyticsTools.get_market_statistics: two client operations in a row *)

\* the statistics text: the exception the formatting raises on the decoded
\* metrics, total_volume / total_market_cap with a total_market_cap of 0
\* when the quote lacks the currency, or NoExc
FormatStatistics(metrics) ==
    IF metrics = EmptyQuote THEN Exc("ZeroDivisionError", 0, FALSE) ELSE NoExc

\* the text made of the metrics and of the top-10 listings
StatisticsText(c, listings) ==
    [tool |-> c.tool, convert |-> c.convert, data |-> 10 * c.metrics + listings]

\* the except clauses and the end of the loop body of _make_request, for
\* the exception class x of an attempt: raise, sleep before the next
\* attempt, or leave the loop and raise
AfterException(c, x) ==
    IF x.reraise THEN Failed(c, x.exc)
    ELSE LET r == c.retries + 1
             c2 == [c EXCEPT !.last_exception = x.exc, !.retries = r]
         IN IF r <= max_retries
            THEN [c2 EXCEPT !.pc = "backoff", !.wake = now + Pow2(r),
                            !.sleeps = Append(@, Pow2(r))]
            ELSE Failed(c2, MaxRetriesExceeded(c2))

\* get_market_statistics(convert), to its first suspension
GetMarketStatistics(p) ==
    /\ call[p].pc = "pending"
    /\ call[p].tool = "stats"
    /\ UNCHANGED <<now, max_retries, upstream, direct>>
    /\ LET c0 == call[p]
           key == generate_key("market_stats",
                               <<Item("convert", StrVal(c0.convert))>>)
           g == CacheGet(cache, stats, key, now)
           c1 == [c0 EXCEPT !.cache_key = key]
       IN
       /\ cache' = g.cache
       /\ stats' = g.stats
       /\ IF g.hit
          THEN /\ call' = [call EXCEPT ![p] =
                      Returned([c1 EXCEPT !.cache_hit = TRUE], g.value)]
               /\ UNCHANGED <<tokens, last_update, http_total>>
          ELSE \* get_global_metrics(convert=convert)
               MakeRequest(p, c1, <<Item("convert", StrVal(c0.convert))>>)

\* an HTTP request of get_market_statistics completes with outcome o: the
\* rest of the loop body of _make_request and, when the client operation
\* returns, the handler up to its next suspension or to its end
StatsHttpResponse(p, o) ==
    /\ call[p].pc = "http"
    /\ call[p].tool = "stats"
    /\ UNCHANGED <<now, max_retries, upstream, direct>>
    /\ LET c == [call[p] EXCEPT !.last_outcome = o,
                                !.all_timeout = @ /\ o.kind = "timeout"]
           e == TryBody(o)
       IN
       IF e # NoExc
       THEN /\ call' = [call EXCEPT ![p] = AfterException(c, Except(e))]
            /\ UNCHANGED <<tokens, last_update, http_total, cache, stats>>
       ELSE IF c.api_calls = 1
       THEN \* get_global_metrics returns; get_cryptocurrency_listings(limit=10)
            IF parse_global_metrics(o.data) # NoExc
            THEN /\ call' = [call EXCEPT ![p] =
                        Failed(c, parse_global_metrics(o.data))]
                 /\ UNCHANGED <<tokens, last_update, http_total, cache, stats>>
            ELSE /\ MakeRequest(p, [c EXCEPT !.metrics = o.data],
                                <<Item("start", IntVal(1)),
                                  Item("limit", IntVal(10)),
                                  Item("convert", StrVal(c.convert)),
                                  Item("sort", StrVal(<<"market_cap">>)),
                                  Item("sort_dir", StrVal(<<"desc">>))>>)
                 /\ UNCHANGED <<cache, stats>>
       ELSE \* get_cryptocurrency_listings returns: format, cache, return
            LET parsed == parse_cryptocurrency_data(o.data)
                format == FormatStatistics(c.metrics)
                text == StatisticsText(c, o.data)
                s == CacheSet(cache, stats, c.cache_key, text, now)
            IN
            /\ UNCHANGED <<tokens, last_update, http_total>>
            /\ IF parsed # NoExc \/ format # NoExc
               THEN /\ call' = [call EXCEPT ![p] =
                           Failed(c, IF parsed # NoExc THEN parsed ELSE format)]
                    /\ UNCHANGED <<cache, stats>>
               ELSE /\ cache' = s.cache
                    /\ stats' = s.stats
                    /\ call' = [call EXCEPT ![p] =
                            Returned([c EXCEPT !.set_at = now], text)]

\* get_market_statistics called by two callers, the second one for USD,
\* over upstream answers that succeed, fail for good or fail for a while
InitStats ==
    /\ InitCommon
    /\ max_retries = 1
    /\ upstream = {Resp(200, TRUE, d) : d \in {1, MissingMetric, EmptyQuote}}
                    \cup {Resp(401, TRUE, 0), TimeoutOutcome}
    /\ tokens = FullBucket
    /\ call \in {f \in [Procs -> {StatsPending(cv) : cv \in Converts}] :
                    \A p \in Procs : p # 1 => f[p].convert = USD}

NextStats ==
    \/ \E p \in Procs : GetMarketStatistics(p)
    \/ \E p \in Procs : TokenWake(p)
    \/ \E p \in Procs, o \in upstream : StatsHttpResponse(p, o)
    \/ \E p \in Procs : BackoffWake(p)
    \/ Tick

SpecStats == InitStats /\ [][NextStats]_vars

\* one tool invocation over every input and every upstream outcome, on a
\* limiter that is full or has been drained by earlier traffic
InitAny ==
    /\ InitCommon
    /\ max_retries \in 0..1
    /\ upstream = Outcomes
    /\ tokens \in {0, FullBucket}
    /\ \E c \in AnyInvocation : call = [p \in Procs |-> IF p = 1 THEN c ELSE Idle]

SpecAny == InitAny /\ [][Next]_vars
SpecConc == InitConc /\ [][Next]_vars
SpecTool == InitTool /\ [][Next]_vars

----------------------------------------------------------------------------
(* A logical call to its end *)

\* time goes by while a coroutine sleeps, up to the end of its sleep
Sleep ==
    /\ \E p \in Procs : call[p].pc \in {"wait_token", "backoff"} /\ now < call[p].wake
    /\ now' = now + 1
    /\ UNCHANGED <<max_retries, tokens, last_update, cache, stats, call, http_total,
                   upstream, direct>>

NextLive ==
    \/ \E p \in Procs : GetCryptocurrencyPrice(p)
    \/ \E p \in Procs : GetTopCryptocurrencies(p)
    \/ \E p \in Procs : TokenWake(p)
    \/ \E p \in Procs, o \in upstream : HttpResponse(p, o)
    \/ \E p \in Procs : BackoffWake(p)
    \/ Sleep

\* the clock advances, the event loop resumes a coroutine whose sleep is
\* over, and every HTTP request ends: in a response, or in the timeout the
\* httpx client is constructed with
SpecLive ==
    /\ Init
    /\ [][NextLive]_vars
    /\ WF_vars(Sleep)
    /\ \A p \in Procs :
            /\ WF_vars(TokenWake(p))
            /\ WF_vars(BackoffWake(p))
            /\ WF_vars(\E o \in upstream : HttpResponse(p, o))

----------------------------------------------------------------------------
(* A caller that gives up *)

\* asyncio.CancelledError, a BaseException: no `except Exception` of
\* _make_request or of the tool handler catches it
Cancelled(c) ==
    [Ended(c) EXCEPT !.result = [status |-> "cancelled",
                                 exc |-> Exc("asyncio.CancelledError", 0, FALSE),
                                 text |-> NoText]]

\* a cancellation that put back into the bucket what the call had taken
CancelRefund(p) ==
    /\ call[p].pc \in {"wait_token", "http", "backoff"}
    /\ call' = [call EXCEPT ![p] = Cancelled(call[p])]
    /\ tokens' = Min(FullBucket, tokens + call[p].tokens_taken * TokenUnit)
    /\ UNCHANGED <<now, max_retries, last_update, cache, stats, http_total,
                   upstream, direct>>

\* the task of caller p is cancelled while it is suspended in
\* wait_for_token, in the HTTP request or in the backoff sleep
Cancel(p) ==
    /\ call[p].pc \in {"wait_token", "http", "backoff"}
    /\ call' = [call EXCEPT ![p] = Cancelled(call[p])]
    /\ UNCHANGED <<now, max_retries, tokens, last_update, cache, stats, http_total,
                   upstream, direct>>

NextCancel ==
    \/ Next
    \/ \E p \in Procs : Cancel(p)

SpecCancel == Init /\ [][NextCancel]_vars

----------------------------------------------------------------------------
(* CryptoCache._generate_key called on its own *)

KeyPrefixes == {"price", "historical"}

\* keyword arguments as the tools pass them: a required one, optional ones
\* that are given or None
KeyItems ==
    { Item("symbol", StrVal(BTC)),
      Item("time_start", NoneVal), Item("time_start", StrVal(<<"1">>)),
      Item("convert", NoneVal), Item("convert", StrVal(USD)) }

\* **kwargs: every name at most once, in the order of the call
KwargLists ==
    {l \in UNION {[1..n -> KeyItems] : n \in 0..MaxKwargs} :
        \A i, j \in 1..Len(l) : i # j => l[i].name # l[j].name}

InitKey ==
    /\ InitUtils
    /\ max_retries = 0
    /\ upstream = {}
    /\ tokens = FullBucket
    /\ call = [p \in Procs |-> Idle]
    /\ cache_use = NoCacheUse
    /\ limiter_use = NoLimiterUse
    /\ Unused
    /\ keygen \in [KeyCalls ->
            {[NoKeyCall EXCEPT !.pc = "pending", !.prefix = pre, !.kwargs = l] :
                pre \in KeyPrefixes, l \in KwargLists}]

\* cache._generate_key(prefix, **kwargs)
GenerateKey(i) ==
    /\ keygen[i].pc = "pending"
    /\ LET k == keygen[i] IN
       keygen' = [keygen EXCEPT ![i] =
            [k EXCEPT !.pc = "done", !.key = generate_key(k.prefix, k.kwargs)]]
    /\ UNCHANGED <<now, max_retries, tokens, last_update, cache, stats, call,
                   http_total, upstream, cache_use, limiter_use, error_use,
                   search_use, params_use, construction, cached_use>>

NextKey == \E i \in KeyCalls : GenerateKey(i)

SpecKey == InitKey /\ [][NextKey]_vars

----------------------------------------------------------------------------
(* CryptoCache used on its own *)

\* operations in one run
MaxCacheOps == max_size + 2

InitCache ==
    /\ InitUtils
    /\ max_retries = 0
    /\ upstream = {}
    /\ tokens = FullBucket
    /\ call = [p \in Procs |-> Idle]
    /\ keygen = [i \in KeyCalls |-> NoKeyCall]
    /\ limiter_use = NoLimiterUse
    /\ cache_use = NoCacheUse
    /\ Unused

Touch(recency, key) == Append(SelectSeq(recency, LAMBDA k : k # key), key)
WrittenKeys(u) == {k \in CacheKeys : u.written[k].at >= 0}

CacheOpFrame ==
    UNCHANGED <<now, max_retries, tokens, last_update, call, http_total, upstream,
                keygen, limiter_use, error_use, search_use, params_use, construction, cached_use>>

\* cache.get(key)
DoGet(key) ==
    /\ cache_use.ops < MaxCacheOps
    /\ LET g == CacheGet(cache, stats, key, now) IN
       /\ cache' = g.cache
       /\ stats' = g.stats
       /\ cache_use' =
            [cache_use EXCEPT
                !.ops = @ + 1,
                !.last = [op |-> "get", key |-> key, ret |-> g.value, n |-> 0],
                !.recency = IF g.hit THEN Touch(@, key) ELSE @]
    /\ CacheOpFrame

\* cache.set(key, value)
DoSet(key) ==
    /\ cache_use.ops < MaxCacheOps
    /\ LET value == CacheValue(stats.sets)
           s == CacheSet(cache, stats, key, value, now)
       IN
       /\ cache' = s.cache
       /\ stats' = s.stats
       /\ cache_use' =
            [cache_use EXCEPT
                !.ops = @ + 1,
                !.last = [op |-> "set", key |-> key, ret |-> NoValue, n |-> 0],
                !.written[key] = [at |-> now, value |-> value],
                !.recency = Touch(@, key),
                !.cleared = @ \ {key},
                !.overflowed =
                    \/ @
                    \/ /\ key \notin WrittenKeys(cache_use)
                       /\ Cardinality(WrittenKeys(cache_use)) >= max_size]
    /\ CacheOpFrame

\* cache.delete(key)
DoDelete(key) ==
    /\ cache_use.ops < MaxCacheOps
    /\ cache' = CacheDelete(cache, key)
    /\ UNCHANGED stats
    /\ cache_use' =
            [cache_use EXCEPT
                !.ops = @ + 1,
                !.last = [op |-> "delete", key |-> key, ret |-> NoValue, n |-> 0],
                !.written[key] = NoWrite,
                !.recency = SelectSeq(@, LAMBDA k : k # key)]
    /\ CacheOpFrame

\* cache.clear()
DoClear ==
    /\ cache_use.ops < MaxCacheOps
    /\ cache' = CacheClear(cache)
    /\ UNCHANGED stats
    /\ cache_use' =
            [cache_use EXCEPT
                !.ops = @ + 1,
                !.last = [op |-> "clear", key |-> NoKey, ret |-> NoValue, n |-> 0],
                !.written = [k \in CacheKeys |-> NoWrite],
                !.recency = <<>>,
                !.overflowed = FALSE,
                !.cleared = @ \cup WrittenKeys(cache_use)]
    /\ CacheOpFrame

\* cache.invalidate_pattern(prefix + ":")
DoInvalidatePattern(prefix) ==
    /\ cache_use.ops < MaxCacheOps
    /\ LET r == CacheInvalidate(cache, prefix, now) IN
       /\ cache' = r.cache
       /\ cache_use' =
            [cache_use EXCEPT
                !.ops = @ + 1,
                !.last = [op |-> "invalidate", key |-> [NoKey EXCEPT !.prefix = prefix],
                          ret |-> NoValue, n |-> r.n],
                !.written = [k \in CacheKeys |->
                                IF k.prefix = prefix THEN NoWrite ELSE @[k]],
                !.recency = SelectSeq(@, LAMBDA k : k.prefix # prefix)]
    /\ UNCHANGED stats
    /\ CacheOpFrame

NextCache ==
    \/ \E k \in CacheKeys : DoGet(k)
    \/ \E k \in CacheKeys : DoSet(k)
    \/ \E k \in CacheKeys : DoDelete(k)
    \/ DoClear
    \/ \E pre \in CachePrefixes : DoInvalidatePattern(pre)
    \/ Tick

SpecCache == InitCache /\ [][NextCache]_vars

----------------------------------------------------------------------------
(* RateLimiter used on its own *)

\* acquire calls in one run, and the most tokens asked for at once
MaxAcquires == requests_per_period + 2
MaxAsk == requests_per_period + 1

InitLimiter ==
    /\ InitUtils
    /\ max_retries = 0
    /\ upstream = {}
    /\ tokens = FullBucket
    /\ call = [p \in Procs |-> Idle]
    /\ keygen = [i \in KeyCalls |-> NoKeyCall]
    /\ cache_use = NoCacheUse
    /\ limiter_use = NoLimiterUse
    /\ Unused

LimiterFrame ==
    UNCHANGED <<now, max_retries, cache, stats, call, http_total, upstream, keygen,
                cache_use, error_use, search_use, params_use, construction, cached_use>>

\* limiter.acquire(n)
Acquire(n) ==
    /\ Len(limiter_use.log) < MaxAcquires
    /\ LET a == acquire(tokens, last_update, n, now) IN
       /\ tokens' = a.tokens
       /\ last_update' = a.last_update
       /\ limiter_use' = [limiter_use EXCEPT
                !.log = Append(@, [n |-> n, t |-> now, ok |-> a.ok, began |-> 0])]
    /\ LimiterFrame

\* a round that lets the callers through in the order they began to wait: a
\* caller goes back to sleep while one that began before it is waiting
WaitRoundFifo(p, n) ==
    /\ Len(limiter_use.log) < MaxAcquires
    /\ LET began == IF limiter_use.waiter[p].pc = "idle"
                        THEN Len(limiter_use.log) + 1
                        ELSE limiter_use.waiter[p].began
           behind == \E q \in Procs \ {p} :
                        /\ limiter_use.waiter[q].pc = "sleep"
                        /\ limiter_use.waiter[q].began < began
           a == IF behind
                    THEN [acquire_free(tokens, last_update, n, now) EXCEPT !.ok = FALSE]
                    ELSE acquire(tokens, last_update, n, now)
       IN
       /\ tokens' = a.tokens
       /\ last_update' = a.last_update
       /\ limiter_use' = [limiter_use EXCEPT
                !.log = Append(@, [n |-> n, t |-> now, ok |-> a.ok, began |-> began]),
                !.waiter[p] =
                    IF a.ok THEN NoWaiter
                    ELSE [pc |-> "sleep", n |-> n,
                          wake |-> now + Max(1, WaitSeconds(a.tokens, n)),
                          began |-> began]]
    /\ LimiterFrame

\* one round of the loop of wait_for_token(n) by caller p: return when the
\* acquire succeeds, sleep otherwise
WaitRound(p, n) ==
    /\ Len(limiter_use.log) < MaxAcquires
    /\ LET a == acquire(tokens, last_update, n, now)
           began == IF limiter_use.waiter[p].pc = "idle"
                        THEN Len(limiter_use.log) + 1
                        ELSE limiter_use.waiter[p].began
       IN
       /\ tokens' = a.tokens
       /\ last_update' = a.last_update
       /\ limiter_use' = [limiter_use EXCEPT
                !.log = Append(@, [n |-> n, t |-> now, ok |-> a.ok, began |-> began]),
                !.waiter[p] =
                    IF a.ok THEN NoWaiter
                    ELSE [pc |-> "sleep", n |-> n,
                          wake |-> now + WaitSeconds(a.tokens, n),
                          began |-> began]]
    /\ LimiterFrame

\* await limiter.wait_for_token(n), to its first suspension
WaitForTokenCall(p, n) ==
    /\ limiter_use.waiter[p].pc = "idle"
    /\ WaitRound(p, n)

\* asyncio.sleep(max(0.1, wait_time)) is over
WaitForTokenWake(p) ==
    /\ limiter_use.waiter[p].pc = "sleep"
    /\ now >= limiter_use.waiter[p].wake
    /\ WaitRound(p, limiter_use.waiter[p].n)

NextLimiter ==
    \/ \E n \in 1..MaxAsk : Acquire(n)
    \/ \E p \in Procs, n \in 1..MaxAsk : WaitForTokenCall(p, n)
    \/ \E p \in Procs : WaitForTokenWake(p)
    \/ Tick

SpecLimiter == InitLimiter /\ [][NextLimiter]_vars

----------------------------------------------------------------------------
(* wait_for_token awaited by one caller, call after call *)

Caller == 1

\* the bucket full, or part drained by what the caller did before
InitWait ==
    /\ InitUtils
    /\ max_retries = 0
    /\ upstream = {}
    /\ tokens \in 0..FullBucket
    /\ call = [p \in Procs |-> Idle]
    /\ keygen = [i \in KeyCalls |-> NoKeyCall]
    /\ cache_use = NoCacheUse
    /\ limiter_use = NoLimiterUse
    /\ Unused

NextWait ==
    \/ \E n \in 1..requests_per_period : WaitForTokenCall(Caller, n)
    \/ WaitForTokenWake(Caller)
    \/ Tick

\* the event loop resumes a coroutine whose sleep is over, and time goes by
SpecWait ==
    /\ InitWait
    /\ [][NextWait]_vars
    /\ WF_vars(WaitForTokenWake(Caller))
    /\ WF_vars(Tick)

----------------------------------------------------------------------------
(* CoinMarketCapClient.search_cryptocurrencies *)

\* the loop of search_cryptocurrencies over what is left of data: a matching
\* item is appended, and the loop breaks when the results have reached limit
RECURSIVE SearchLoop(_, _, _, _)
SearchLoop(data, query_lower, limit, results) ==
    IF data = <<>> THEN results
    ELSE LET item == Head(data) IN
         IF \/ Contains(query_lower, StrLower(item.name))
            \/ Contains(query_lower, StrLower(item.symbol))
            THEN LET appended == Append(results, item) IN
                 IF Len(appended) >= limit THEN appended
                 ELSE SearchLoop(Tail(data), query_lower, limit, appended)
            ELSE SearchLoop(Tail(data), query_lower, limit, results)

\* the entries the directory is made of
DirectoryItems ==
    { [id |-> 1, name |-> <<"B", "i", "t">>, symbol |-> <<"B", "T", "C">>],
      [id |-> 2, name |-> <<"E", "t", "h">>, symbol |-> <<"E", "T", "H">>],
      [id |-> 3, name |-> <<"B", "i", "t", "c">>, symbol |-> <<"B", "C", "H">>],
      [id |-> 4, name |-> <<"T", "e", "t", "h">>, symbol |-> <<"T", "E", "T">>] }

\* the data of cryptocurrency/map: each entry once, in any order
Directories ==
    {d \in UNION {[1..n -> DirectoryItems] : n \in 0..MaxDirectory} :
        \A i, j \in 1..Len(d) : i # j => d[i] # d[j]}

Queries ==
    { <<"b", "i", "t">>, <<"B", "I", "T">>, <<"e", "t", "h">>, <<"t">>, <<"b", "c">>,
      <<"x">>, <<>> }

InitSearch ==
    /\ InitUtils
    /\ max_retries = 0
    /\ upstream = {}
    /\ tokens = FullBucket
    /\ call = [p \in Procs |-> Idle]
    /\ keygen = [i \in KeyCalls |-> NoKeyCall]
    /\ cache_use = NoCacheUse
    /\ limiter_use = NoLimiterUse
    /\ error_use = [i \in ErrorCalls |-> NoErrorCall]
    /\ params_use = NoParams
    /\ construction = NoConstruction
    /\ cached_use = NoCachedUse
    /\ search_use \in
            {[NoSearch EXCEPT !.pc = "pending", !.directory = d, !.query = q,
                              !.limit = l] :
                d \in Directories, q \in Queries, l \in 0..MaxDirectory}

\* client.search_cryptocurrencies(query, limit): _make_request is admitted at
\* once and answered with the directory, which is then filtered
SearchCryptocurrencies ==
    /\ search_use.pc = "pending"
    /\ LET a == acquire(tokens, last_update, 1, now) IN
       /\ a.ok
       /\ tokens' = a.tokens
       /\ last_update' = a.last_update
    /\ http_total' = http_total + 1
    /\ search_use' =
            [search_use EXCEPT
                !.pc = "done",
                !.results = SearchLoop(search_use.directory, StrLower(search_use.query),
                                       search_use.limit, <<>>)]
    /\ UNCHANGED <<now, max_retries, cache, stats, call, upstream, keygen, cache_use,
                   limiter_use, error_use, params_use, construction, cached_use>>

NextSearch == SearchCryptocurrencies

SpecSearch == InitSearch /\ [][NextSearch]_vars

----------------------------------------------------------------------------
(* sanitize_parameters called on its own *)

\* the parameters the client operations build: given, None, or an empty
\* string passed on from the caller
ParamItems ==
    { Item("symbol", StrVal(BTC)),
      Item("convert", StrVal(USD)), Item("convert", StrVal(<<>>)),
      Item("convert", NoneVal),
      Item("time_start", NoneVal), Item("time_start", StrVal(<<"1">>)),
      Item("limit", IntVal(1)) }

\* a dict: every name at most once
ParamDicts ==
    {l \in UNION {[1..n -> ParamItems] : n \in 0..(MaxKwargs + 1)} :
        \A i, j \in 1..Len(l) : i # j => l[i].name # l[j].name}

InitParams ==
    /\ InitUtils
    /\ max_retries = 0
    /\ upstream = {}
    /\ tokens = FullBucket
    /\ call = [p \in Procs |-> Idle]
    /\ keygen = [i \in KeyCalls |-> NoKeyCall]
    /\ cache_use = NoCacheUse
    /\ limiter_use = NoLimiterUse
    /\ error_use = [i \in ErrorCalls |-> NoErrorCall]
    /\ search_use = NoSearch
    /\ construction = NoConstruction
    /\ cached_use = NoCachedUse
    /\ params_use \in {[NoParams EXCEPT !.pc = "pending", !.params = l] : l \in ParamDicts}

\* params = sanitize_parameters(params or {})
SanitizeParameters ==
    /\ params_use.pc = "pending"
    /\ params_use' = [params_use EXCEPT !.pc = "done",
                                        !.result = sanitize_parameters(params_use.params)]
    /\ UNCHANGED <<now, max_retries, tokens, last_update, cache, stats, call,
                   http_total, upstream, keygen, cache_use, limiter_use, error_use,
                   search_use, construction, cached_use>>

NextParams == SanitizeParameters

SpecParams == InitParams /\ [][NextParams]_vars

----------------------------------------------------------------------------
(* CoinMarketCapClient.__init__ *)

\* every value counts as true
AlwaysTruthy(val) == TRUE

\* the truth value Python gives None or a string
Truthy(val) == val.tag # "null" /\ ~(val.tag = "str" /\ val.s = <<>>)

\* the api_key argument and the COINMARKETCAP_API_KEY environment variable:
\* not given (None, unset), empty, or a key
ApiKeyArguments == {NoneVal, StrVal(<<>>), StrVal(<<"k", "1">>)}
ApiKeyEnvironments == {NoneVal, StrVal(<<>>), StrVal(<<"k", "2">>)}

InitConstruct ==
    /\ InitUtils
    /\ max_retries = 0
    /\ upstream = {}
    /\ tokens = 0
    /\ call = [p \in Procs |-> Idle]
    /\ keygen = [i \in KeyCalls |-> NoKeyCall]
    /\ cache_use = NoCacheUse
    /\ limiter_use = NoLimiterUse
    /\ error_use = [i \in ErrorCalls |-> NoErrorCall]
    /\ search_use = NoSearch
    /\ params_use = NoParams
    /\ cached_use = NoCachedUse
    /\ construction \in
            {[NoConstruction EXCEPT !.pc = "pending", !.api_key = k, !.env = e,
                                    !.max_retries = r] :
                k \in ApiKeyArguments, e \in ApiKeyEnvironments,
                r \in (0 - 1)..MaxRetries}

\* CoinMarketCapClient(api_key=..., max_retries=...)
Construct ==
    /\ construction.pc = "pending"
    /\ LET k == IF Truthy(construction.api_key) THEN construction.api_key
                ELSE construction.env
       IN
       IF ~Truthy(k)
       THEN /\ construction' =
                    [construction EXCEPT
                        !.pc = "done", !.self_api_key = k,
                        !.raised = Exc("ConfigurationError", 0, FALSE)]
            /\ UNCHANGED <<max_retries, tokens, last_update>>
       ELSE /\ construction' =
                    [construction EXCEPT
                        !.pc = "done", !.self_api_key = k, !.client = TRUE,
                        !.rate_limiter = TRUE]
            /\ max_retries' = construction.max_retries
            /\ tokens' = FullBucket
            /\ last_update' = now
    /\ UNCHANGED <<now, cache, stats, call, http_total, upstream, keygen, cache_use,
                   limiter_use, error_use, search_use, params_use, cached_use>>

NextConstruct ==
    \/ Construct
    \/ Tick

SpecConstruct == InitConstruct /\ [][NextConstruct]_vars

----------------------------------------------------------------------------
(* cached(cache, key_prefix): a one-argument function behind the decorator *)

\* calls of the wrapped function in one run
MaxCachedCalls == max_size + 1

\* the place of the argument x among the arguments
ArgumentNo(x) ==
    CASE x = IntVal(1) -> 1
      [] x = TupleVal(<<"1", "2">>) -> 2
      [] x = ListVal(<<"1", "2">>) -> 3

\* func(x): None for the arguments in none_for, else a result of its own
\* for every argument
Func(x) ==
    IF x \in cached_use.none_for THEN NoValue
    ELSE [tool |-> "func", convert |-> <<>>, data |-> ArgumentNo(x)]

\* cache._generate_key(key_prefix, args=args, kwargs=kwargs) for the call
\* func(x): args is (x,) and kwargs is {}
CachedKey(x) ==
    generate_key("func", <<Item("args", x), Item("kwargs", DictVal(<<>>))>>)

InitCached ==
    /\ InitUtils
    /\ max_retries = 0
    /\ upstream = {}
    /\ tokens = FullBucket
    /\ call = [p \in Procs |-> Idle]
    /\ keygen = [i \in KeyCalls |-> NoKeyCall]
    /\ cache_use = NoCacheUse
    /\ limiter_use = NoLimiterUse
    /\ error_use = [i \in ErrorCalls |-> NoErrorCall]
    /\ search_use = NoSearch
    /\ params_use = NoParams
    /\ construction = NoConstruction
    /\ cached_use \in
            {[NoCachedUse EXCEPT !.is_async = a, !.none_for = n] :
                a \in BOOLEAN, n \in {{}, {IntVal(1)}}}

CachedFrame ==
    UNCHANGED <<now, max_retries, tokens, last_update, call, http_total, upstream,
                keygen, cache_use, limiter_use, error_use, search_use, params_use,
                construction>>

\* sync_wrapper(x), called by p: the whole call
sync_wrapper(p, x) ==
    /\ ~cached_use.is_async
    /\ cached_use.calls[p].pc \in {"idle", "done"}
    /\ cached_use.begun < MaxCachedCalls
    /\ LET key == CachedKey(x)
           g == CacheGet(cache, stats, key, now)
           result == Func(x)
           s == CacheSet(g.cache, g.stats, key, result, now)
       IN
       IF g.hit
       THEN /\ cache' = g.cache
            /\ stats' = g.stats
            /\ cached_use' = [cached_use EXCEPT
                    !.begun = @ + 1,
                    !.calls[p] = [pc |-> "done", no |-> cached_use.begun + 1,
                                  arg |-> x, key |-> key,
                                  hit |-> TRUE, result |-> g.value]]
       ELSE /\ cache' = s.cache
            /\ stats' = s.stats
            /\ cached_use' = [cached_use EXCEPT
                    !.begun = @ + 1,
                    !.executed[x] = @ + 1,
                    !.calls[p] = [pc |-> "done", no |-> cached_use.begun + 1,
                                  arg |-> x, key |-> key,
                                  hit |-> FALSE, result |-> result]]
    /\ CachedFrame

\* async_wrapper(x), called by p, to its return from the cache or to
\* `await func(x)`
async_wrapper(p, x) ==
    /\ cached_use.is_async
    /\ cached_use.calls[p].pc \in {"idle", "done"}
    /\ cached_use.begun < MaxCachedCalls
    /\ LET key == CachedKey(x)
           g == CacheGet(cache, stats, key, now)
       IN
       /\ cache' = g.cache
       /\ stats' = g.stats
       /\ cached_use' =
            IF g.hit
            THEN [cached_use EXCEPT
                    !.begun = @ + 1,
                    !.calls[p] = [pc |-> "done", no |-> cached_use.begun + 1,
                                  arg |-> x, key |-> key,
                                  hit |-> TRUE, result |-> g.value]]
            ELSE [cached_use EXCEPT
                    !.begun = @ + 1,
                    !.executed[x] = @ + 1,
                    !.calls[p] = [pc |-> "await", no |-> cached_use.begun + 1,
                                  arg |-> x, key |-> key,
                                  hit |-> FALSE, result |-> NoValue]]
    /\ CachedFrame

\* func(x) returns to async_wrapper: cache.set(cache_key, result); return
AsyncReturn(p) ==
    /\ cached_use.calls[p].pc = "await"
    /\ LET c == cached_use.calls[p]
           result == Func(c.arg)
           s == CacheSet(cache, stats, c.key, result, now)
       IN
       /\ cache' = s.cache
       /\ stats' = s.stats
       /\ cached_use' = [cached_use EXCEPT
                !.calls[p] = [c EXCEPT !.pc = "done", !.result = result]]
    /\ CachedFrame

NextCached ==
    \/ \E p \in Procs, x \in Arguments : sync_wrapper(p, x)
    \/ \E p \in Procs, x \in Arguments : async_wrapper(p, x)
    \/ \E p \in Procs : AsyncReturn(p)
    \/ Tick

SpecCached == InitCached /\ [][NextCached]_vars

----------------------------------------------------------------------------
(* handle_api_error called on its own *)

StatusCodes == {201, 204, 302, 400, 401, 402, 403, 404, 429, 430, 499, 500, 503, 599}

\* what response.json() of an error response can be
Bodies ==
    { Body("dict", "absent", "absent"),     \* {}
      Body("dict", "dict", "absent"),       \* {"status": {}}
      Body("dict", "dict", "text"),         \* {"status": {"error_message": "..."}}
      Body("dict", "null", "absent"),       \* {"status": null}
      Body("dict", "number", "absent"),     \* {"status": 401, "error": "..."}
      Body("list", "absent", "absent"),     \* []
      Body("null", "absent", "absent") }    \* null

InitClassify ==
    /\ InitUtils
    /\ max_retries = 0
    /\ upstream = {}
    /\ tokens = FullBucket
    /\ call = [p \in Procs |-> Idle]
    /\ keygen = [i \in KeyCalls |-> NoKeyCall]
    /\ cache_use = NoCacheUse
    /\ limiter_use = NoLimiterUse
    /\ search_use = NoSearch
    /\ params_use = NoParams
    /\ construction = NoConstruction
    /\ cached_use = NoCachedUse
    /\ error_use \in [ErrorCalls ->
            {[NoErrorCall EXCEPT !.pc = "pending", !.status_code = sc,
                                 !.response_data = b] :
                sc \in StatusCodes, b \in Bodies}]

\* handle_api_error(status_code, response_data)
HandleApiError(i) ==
    /\ error_use[i].pc = "pending"
    /\ LET u == error_use[i]
           m == error_message(u.response_data)
       IN
       error_use' = [error_use EXCEPT ![i] =
            IF m.raised # NoExc
                THEN [u EXCEPT !.pc = "done", !.raised = m.raised]
                ELSE [u EXCEPT !.pc = "done",
                               !.raised = handle_api_error(u.status_code),
                               !.message = ExcMessage(u.status_code, m.text)]]
    /\ UNCHANGED <<now, max_retries, tokens, last_update, cache, stats, call,
                   http_total, upstream, keygen, cache_use, limiter_use, search_use,
                   params_use, construction, cached_use>>

NextClassify == \E i \in ErrorCalls : HandleApiError(i)

SpecClassify == InitClassify /\ [][NextClassify]_vars

----------------------------------------------------------------------------
(* Claims *)

IsStatus(c, S) == c.last_outcome.kind = "response" /\ c.last_outcome.status \in S

\* the attempt that got the last outcome was the last one: one request per
\* backoff sleep taken before it, and none after
NoRetryAfter(c) == c.pc = "done" /\ c.http_count = Len(c.sleeps) + 1

BackoffDelays == <<2, 4, 8, 16>>

\* C2: a logical call whose every attempt timed out has issued exactly
\* max_retries + 1 HTTP requests, has slept 2, 4, 8, ... seconds (2^k before
\* the k-th retry, nothing after the last attempt) and ends with a Timeout
\* error.
C2_TimeoutsExhaustRetries ==
    \A p \in Procs :
        LET c == call[p] IN
        (c.pc = "done" /\ c.http_count >= 1 /\ c.all_timeout) =>
            /\ c.http_count = max_retries + 1
            /\ c.sleeps = SubSeq(BackoffDelays, 1, max_retries)
            /\ c.result.status = "error"
            /\ c.result.exc.type = "APITimeoutError"

C2_Witness ==
    \E p \in Procs :
        /\ max_retries = MaxRetries
        /\ max_retries >= 2
        /\ call[p].pc = "done"
        /\ call[p].all_timeout
        /\ call[p].http_count = max_retries + 1
        /\ Len(call[p].sleeps) = max_retries

\* C3: every HTTP request of a logical call is preceded by its own rate
\* limiter acquisition: the tokens a call has consumed equal the HTTP
\* requests it has issued.
C3_TokenPerHttpRequest ==
    \A p \in Procs :
        max_retries >= 0 => call[p].tokens_taken = call[p].http_count

\* C4: the HTTP requests issued so far by all the calls sharing the client
\* never exceed the limiter's initial capacity plus the tokens refilled by the
\* time elapsed so far (both sides in units of 1 / period_seconds).
C4_RequestsBoundedByBucket ==
    http_total * TokenUnit <= FullBucket + now * requests_per_period

\* C5: a 400 or 404 response is terminal: the attempt that got it is the
\* call's last, no backoff sleep follows, and the caller gets
\* InvalidParameter (400) or NotFound (404).
C5_BadRequestAndNotFoundTerminal ==
    \A p \in Procs :
        LET c == call[p] IN
        (max_retries >= 0 /\ IsStatus(c, {400, 404})) =>
            /\ NoRetryAfter(c)
            /\ c.result.status = "error"
            /\ c.result.exc.type =
                   (IF c.last_outcome.status = 400 THEN "InvalidParameterError"
                    ELSE "CryptocurrencyNotFoundError")

\* the failures the retry loop goes on from, by the claim's table
Transient(o) ==
    \/ o.kind \in {"timeout", "connect"}
    \/ o.kind = "response" /\ (o.status >= 500 \/ o.status \in {403})

\* C6: when the retries are exhausted the caller gets the typed error of the
\* last failed attempt: Timeout for a timeout, Connection for a connect
\* failure or a status >= 500, the generic APIError for another non-2xx
\* status.
C6_ExhaustedRaisesLastTyped ==
    \A p \in Procs :
        LET c == call[p]
            o == c.last_outcome
        IN
        (c.pc = "done" /\ c.http_count = max_retries + 1 /\ Transient(o)) =>
            /\ c.result.status = "error"
            /\ c.result.exc.type =
                   (IF o.kind = "timeout" THEN "APITimeoutError"
                    ELSE IF o.kind = "connect" THEN "APIConnectionError"
                    ELSE IF o.status >= 500 THEN "APIConnectionError"
                    ELSE "APIError")

\* C7: any 2xx response with a decodable, well-formed body ends the logical
\* call at once with that body returned: no further request, no backoff
\* sleep, also when it comes on a retry.
C7_Any2xxReturns ==
    \A p \in Procs :
        LET c == call[p]
            o == c.last_outcome
        IN
        ( /\ o.kind = "response" /\ o.status >= 200 /\ o.status < 300
          /\ o.json /\ o.data # MissingPrice ) =>
            /\ NoRetryAfter(c)
            /\ c.result.status = "ok"

\* a price invocation that fetched its result upstream and returned it
FetchedPrice(c) ==
    /\ c.pc = "done"
    /\ c.tool = "price"
    /\ c.result.status = "ok"
    /\ ~c.cache_hit

SameArguments(c, d) ==
    c.tool = d.tool /\ c.symbols = d.symbols /\ c.limit = d.limit
        /\ c.convert = d.convert

\* C8: a get_cryptocurrency_price call that starts after an identical one has
\* returned its fetched result, and less than ttl_seconds after that result
\* was cached, is served from the cache: it makes no client call and no HTTP
\* request, and its text is the first call's text; the first call made
\* exactly one client call for quotes.
C8_SecondIdenticalPriceCallCached ==
    [][\A p, q \in Procs :
          ( /\ p # q
            /\ FetchedPrice(call[p])
            /\ call[q].pc = "pending"
            /\ call'[q].pc # "pending"
            /\ SameArguments(call[p], call[q])
            /\ now < call[p].set_at + ttl_seconds )
          => /\ call[p].api_calls = 1
             /\ call'[q].pc = "done"
             /\ call'[q].cache_hit
             /\ call'[q].api_calls = 0
             /\ call'[q].http_count = 0
             /\ http_total' = http_total
             /\ call'[q].result.status = "ok"
             /\ call'[q].result.text = call[p].result.text]_vars

C8_Witness ==
    \E p, q \in Procs :
        /\ p # q
        /\ FetchedPrice(call[p])
        /\ call[q].pc = "done"
        /\ SameArguments(call[p], call[q])
        /\ call[q].cache_hit
        /\ call[q].api_calls = 0
        /\ call[q].result.text = call[p].result.text
        /\ call[p].http_count = 2

\* C9: two get_cryptocurrency_price calls whose symbols normalize to the same
\* list (and whose convert is the same) use the same cache key and send the
\* same upstream symbol list.
C9_NormalizedBeforeCacheKey ==
    \A p, q \in Procs :
        LET c == call[p]
            d == call[q]
        IN
        ( /\ c.tool = "price" /\ d.tool = "price"
          /\ c.cache_key # NoKey /\ d.cache_key # NoKey
          /\ c.convert = d.convert
          /\ validate_symbols(c.symbols) = validate_symbols(d.symbols) )
        => /\ c.cache_key = d.cache_key
           /\ c.symbol_list = d.symbol_list
           /\ c.params = d.params

\* the inputs client-side validation rejects
InvalidInput(c) ==
    \/ c.tool = "price" /\ ~validate_symbols(c.symbols).ok
    \/ c.tool = "top" /\ (c.limit < 1 \/ c.limit > 5000)

\* C10: a tool call rejected by client-side validation returns an error and
\* makes no upstream request, consumes no rate-limit token and no retry
\* attempt: the limiter (tokens, last_update), the HTTP count and the cache
\* are the same after the call as before.
C10_RejectedCallTouchesNothing ==
    [][\A p \in Procs :
          (call[p].pc = "pending" /\ InvalidInput(call[p]) /\ call'[p] # call[p])
          => /\ call'[p].pc = "done"
             /\ call'[p].result.status = "error"
             /\ tokens' = tokens
             /\ last_update' = last_update
             /\ http_total' = http_total
             /\ cache' = cache
             /\ call'[p].api_calls = 0
             /\ call'[p].http_count = 0
             /\ call'[p].tokens_taken = 0
             /\ call'[p].sleeps = <<>>]_vars

C10_Witness ==
    \E p, q \in Procs :
        /\ call[p].pc = "done"
        /\ call[p].tool = "top"
        /\ call[p].limit = 5001
        /\ call[p].result.exc.type = "ValueError"
        /\ call[q].pc = "done"
        /\ call[q].tool = "price"
        /\ call[q].symbols = <<"B", "T", "C", "$">>
        /\ call[q].result.exc.type = "ValueError"
        /\ tokens = FullBucket
        /\ http_total = 0

\* C11: a 200 response whose payload lacks a required field makes the client
\* operation fail with InvalidResponseError, not with the decoder's own
\* exception.
C11_MalformedPayloadIsInvalidResponse ==
    \A p \in Procs :
        LET c == call[p] IN
        ( /\ c.pc = "done"
          /\ IsStatus(c, {200}) /\ c.last_outcome.json
          /\ c.last_outcome.data = MissingPrice )
        => /\ c.result.status = "error"
           /\ c.result.exc.type = "InvalidResponseError"

\* the parameters of a call as a set, and without the absent (None) ones
ItemSet(kwargs) == {kwargs[i] : i \in 1..Len(kwargs)}
DropAbsent(kwargs) == {it \in ItemSet(kwargs) : it.val.tag # "null"}

\* C12: two _generate_key calls with the same prefix whose parameters are
\* equal as sets once the None-valued ones are dropped return the same key.
C12_AbsentParametersDropped ==
    \A i, j \in KeyCalls :
        ( /\ keygen[i].pc = "done" /\ keygen[j].pc = "done"
          /\ keygen[i].prefix = keygen[j].prefix
          /\ DropAbsent(keygen[i].kwargs) = DropAbsent(keygen[j].kwargs) )
        => keygen[i].key = keygen[j].key

\* C13: two _generate_key calls with the same prefix and the same named
\* parameters return the same key whatever order the parameters were passed
\* in, and every key starts with its prefix.
C13_KeyOrderIndependent ==
    \A i, j \in KeyCalls :
        (keygen[i].pc = "done" /\ keygen[j].pc = "done") =>
            /\ keygen[i].key.prefix = keygen[i].prefix
            /\ ( ( /\ keygen[i].prefix = keygen[j].prefix
                  /\ ItemSet(keygen[i].kwargs) = ItemSet(keygen[j].kwargs) )
                => keygen[i].key = keygen[j].key )

C13_Witness ==
    /\ keygen[1].pc = "done" /\ keygen[2].pc = "done"
    /\ keygen[1].prefix = keygen[2].prefix
    /\ Len(keygen[1].kwargs) = MaxKwargs
    /\ keygen[1].kwargs # keygen[2].kwargs
    /\ ItemSet(keygen[1].kwargs) = ItemSet(keygen[2].kwargs)
    /\ keygen[1].key = keygen[2].key

\* a step of SpecCache that is the operation op on key
CacheOpStep(op, key) ==
    /\ cache_use'.ops = cache_use.ops + 1
    /\ cache_use'.last.op = op
    /\ cache_use'.last.key = key

\* C14: a get of a key last set at time T (not deleted since, and with no
\* more keys set than the cache holds) returns the value set when now < T +
\* ttl_seconds; when now > T + ttl_seconds it returns None and counts a miss.
C14_EntryLivesForTtl ==
    [][\A k \in CacheKeys :
          ( /\ CacheOpStep("get", k)
            /\ cache_use.written[k].at >= 0
            /\ ~cache_use.overflowed )
          => LET w == cache_use.written[k] IN
             /\ (now < w.at + ttl_seconds =>
                    /\ cache_use'.last.ret = w.value
                    /\ cache_use'.last.ret # NoValue)
             /\ (now > w.at + ttl_seconds =>
                    /\ cache_use'.last.ret = NoValue
                    /\ stats'.misses = stats.misses + 1
                    /\ stats'.hits = stats.hits)]_vars

C14_Witness ==
    \E k \in CacheKeys :
        /\ cache_use.last.op = "get"
        /\ cache_use.last.key = k
        /\ cache_use.last.ret = NoValue
        /\ cache_use.written[k].at >= 0
        /\ now > cache_use.written[k].at + ttl_seconds
        /\ ~cache_use.overflowed
        /\ stats.hits = 1
        /\ stats.misses = 1
        /\ stats.sets = 1

KeysOf(c) == {c[i].key : i \in 1..Len(c)}

\* C15: a set of a new key, when as many keys as the cache holds have been
\* set and none of them has expired, evicts exactly one entry: the least
\* recently used one, a set and a get that returned the entry both counting
\* as a use.
C15_EvictsLeastRecentlyUsed ==
    [][\A k \in CacheKeys :
          LET W == WrittenKeys(cache_use) IN
          ( /\ CacheOpStep("set", k)
            /\ ~cache_use.overflowed
            /\ k \notin W
            /\ Cardinality(W) = max_size
            /\ \A j \in W : now < cache_use.written[j].at + ttl_seconds )
          => /\ Head(cache_use.recency) \in W
             /\ KeysOf(cache') = (W \ {Head(cache_use.recency)}) \cup {k}
             /\ Len(cache') = max_size]_vars

\* the cache was filled, its oldest entry was read, and the next new key
\* evicted a younger one
C15_Witness ==
    \E a, b \in CacheKeys :
        /\ cache_use.last.op = "set"
        /\ cache_use.overflowed
        /\ cache_use.ops = max_size + 2
        /\ stats.sets = max_size + 1
        /\ stats.hits = 1
        /\ WrittenKeys(cache_use) = CacheKeys
        /\ cache_use.written[a].at < cache_use.written[b].at
        /\ HasKey(cache, a)
        /\ ~HasKey(cache, b)
        /\ Len(cache) = max_size

\* C20: every get adds one to exactly one of hits and misses, to hits exactly
\* when it returns a value, and then the value is that of an unexpired entry;
\* every set adds one to sets; delete, clear and invalidate_pattern leave
\* hits and misses as they are.
C20_CountersFollowOperations ==
    [][cache_use'.ops = cache_use.ops + 1 =>
          LET o == cache_use'.last
              w == cache_use.written[o.key]
          IN
          /\ o.op = "get" =>
                /\ stats'.sets = stats.sets
                /\ \/ stats'.hits = stats.hits + 1 /\ stats'.misses = stats.misses
                   \/ stats'.hits = stats.hits /\ stats'.misses = stats.misses + 1
                /\ stats'.hits = stats.hits + 1 <=> o.ret # NoValue
                /\ o.ret # NoValue =>
                      /\ w.at >= 0
                      /\ now < w.at + ttl_seconds
                      /\ o.ret = w.value
          /\ o.op = "set" =>
                /\ stats'.sets = stats.sets + 1
                /\ stats'.hits = stats.hits
                /\ stats'.misses = stats.misses
          /\ o.op \in {"delete", "clear", "invalidate"} =>
                /\ stats'.hits = stats.hits
                /\ stats'.misses = stats.misses]_vars

\* a hit, a miss and a set have been counted and invalidate_pattern has just
\* removed an entry
C20_Witness ==
    /\ cache_use.last.op = "invalidate"
    /\ cache_use.last.n >= 1
    /\ stats.hits = 1
    /\ stats.misses = 1
    /\ stats.sets = 1
    /\ cache = <<>>

\* the first i acquire calls all asked for one token at the time of the first
Burst(log, i) ==
    /\ i <= Len(log)
    /\ \A j \in 1..i : log[j].n = 1 /\ log[j].t = log[1].t

\* C16: on a full limiter, of the acquire(1) calls made with no time
\* elapsing the first requests_per_period succeed and the next one fails;
\* an acquire(1) that follows period_seconds / requests_per_period seconds
\* or more later succeeds.
C16_BurstThenRefill ==
    LET log == limiter_use.log
        c == requests_per_period
    IN
    /\ \A i \in 1..Len(log) : Burst(log, i) => (log[i].ok <=> i <= c)
    /\ ( /\ Burst(log, c + 1)
         /\ Len(log) >= c + 2
         /\ log[c + 2].n = 1
         /\ (log[c + 2].t - log[1].t) * requests_per_period >= period_seconds )
       => log[c + 2].ok

C16_Witness ==
    LET log == limiter_use.log
        c == requests_per_period
    IN
    /\ Len(log) = c + 2
    /\ Burst(log, c + 1)
    /\ \A i \in 1..c : log[i].ok
    /\ ~log[c + 1].ok
    /\ log[c + 2].n = 1
    /\ log[c + 2].ok
    /\ (log[c + 2].t - log[1].t) * requests_per_period >= period_seconds
    /\ (log[c + 2].t - log[1].t - 1) * requests_per_period < period_seconds

\* C17: the tokens of the limiter stay between 0 and requests_per_period
\* (in units of 1 / period_seconds: between 0 and FullBucket).
C17_TokensWithinBucket == 0 <= tokens /\ tokens <= FullBucket

\* the bucket was drained, stayed unused for longer than it takes to fill,
\* and was then asked for more than it holds
C17_Witness ==
    LET log == limiter_use.log IN
    /\ Len(log) >= 2
    /\ log[1].ok /\ log[1].n = requests_per_period
    /\ ~log[Len(log)].ok
    /\ log[Len(log)].n > requests_per_period
    /\ (log[Len(log)].t - log[Len(log) - 1].t) * requests_per_period > FullBucket
    /\ tokens = FullBucket
    /\ \E p \in Procs : limiter_use.waiter[p].pc = "sleep"

RECURSIVE SumTaken(_)
SumTaken(S) ==
    IF S = {} THEN 0
    ELSE LET p == CHOOSE x \in S : TRUE IN call[p].tokens_taken + SumTaken(S \ {p})

\* the tokens handed out and the tokens left never exceed the initial
\* capacity plus the refill of the time elapsed
TokensConserved ==
    tokens + SumTaken(Procs) * TokenUnit <= FullBucket + now * requests_per_period

\* C18: among concurrent wait_for_token callers every admission is one
\* refill-check-decrement step: a step admits at most one caller, the bucket
\* held a whole token after the refill and holds exactly one token less
\* after the step, and no token is handed out twice.
C18_AdmissionAtomic ==
    [][/\ TokensConserved'
       /\ \A p \in Procs :
            call'[p].tokens_taken # call[p].tokens_taken =>
                LET r == Min(FullBucket,
                             tokens + (now - last_update) * requests_per_period)
                IN
                /\ call'[p].tokens_taken = call[p].tokens_taken + 1
                /\ \A q \in Procs \ {p} : call'[q].tokens_taken = call[q].tokens_taken
                /\ r >= TokenUnit
                /\ tokens' = r - TokenUnit
                /\ last_update' = now]_vars

\* both callers were admitted, the second one on the token refilled while it
\* waited
C18_Witness ==
    /\ \A p \in Procs : call[p].tokens_taken = 1
    /\ last_update > 0
    /\ tokens + Cardinality(Procs) * TokenUnit =
            FullBucket + last_update * requests_per_period

\* a call that fetched its result upstream and returned it
FetchedOk(c) == c.pc = "done" /\ c.result.status = "ok" /\ ~c.cache_hit

\* C19: when a tool call completes its fetch after another call for the same
\* cache key has completed its own, both have made their own client call and
\* HTTP request, both have written the cache, and the entry holds the value
\* of the call that wrote last.
C19_ConcurrentMissesBothFetch ==
    [][\A p, q \in Procs :
          ( /\ p # q
            /\ call[p].pc = "http"
            /\ FetchedOk(call'[p])
            /\ FetchedOk(call[q])
            /\ call[p].cache_key = call[q].cache_key )
          => LET key == call[p].cache_key IN
             /\ call'[p].api_calls = 1 /\ call[q].api_calls = 1
             /\ call'[p].http_count >= 1 /\ call[q].http_count >= 1
             /\ stats.sets >= 1
             /\ stats'.sets = stats.sets + 1
             /\ HasKey(cache', key)
             /\ cache'[IndexOf(cache', key)].value = call'[p].result.text
             /\ cache'[IndexOf(cache', key)].expires = now + ttl_seconds]_vars

\* two calls for one key missed together, got different data upstream and
\* both wrote the one entry
C19_Witness ==
    \E p, q \in Procs :
        /\ p # q
        /\ FetchedOk(call[p]) /\ FetchedOk(call[q])
        /\ call[p].cache_key = call[q].cache_key
        /\ call[p].set_at = call[q].set_at
        /\ call[p].result.text # call[q].result.text
        /\ stats.sets = 2
        /\ stats.misses = 2
        /\ Len(cache) = 1
        /\ cache[1].value = call[p].result.text

\* C21: when a set discards an entry because the cache is full (as many
\* unexpired keys as it holds have been set and a new key is set), the
\* evictions counter reported by get_stats goes up by one.
C21_EvictionsCounted ==
    [][\A k \in CacheKeys :
          LET W == WrittenKeys(cache_use) IN
          ( /\ CacheOpStep("set", k)
            /\ ~cache_use.overflowed
            /\ k \notin W
            /\ Cardinality(W) = max_size
            /\ \A j \in W : now < cache_use.written[j].at + ttl_seconds )
          => get_stats(cache', stats', now).evictions =
                get_stats(cache, stats, now).evictions + 1]_vars

\* the error type the classification table gives a status code
ClassifiedAs(status_code) ==
    CASE status_code = 401 -> "AuthenticationError"
      [] status_code = 429 -> "RateLimitError"
      [] status_code = 400 -> "InvalidParameterError"
      [] status_code = 404 -> "CryptocurrencyNotFoundError"
      [] status_code \notin {400, 401, 404, 429} /\ status_code >= 500
            -> "APIConnectionError"
      [] OTHER -> "APIError"

\* C22: handle_api_error raises, for every status code and body, the error
\* type its table gives the status code (401 Authentication, 429 RateLimit,
\* 400 InvalidParameter, 404 NotFound, 500 and above Connection, any other
\* the generic APIError with the status code in its text), and the same type
\* for the same status code.
C22_StatusDecidesErrorType ==
    \A i \in ErrorCalls :
        error_use[i].pc = "done" =>
            /\ error_use[i].raised # NoExc
            /\ error_use[i].raised.type = ClassifiedAs(error_use[i].status_code)
            /\ error_use[i].raised.type = "APIError"
                    => error_use[i].message.status_code = error_use[i].status_code
            /\ \A j \in ErrorCalls :
                    ( /\ error_use[j].pc = "done"
                      /\ error_use[j].status_code = error_use[i].status_code )
                    => error_use[j].raised.type = error_use[i].raised.type

\* the wait_for_token call of the caller returns in this step
WaitReturns ==
    /\ Len(limiter_use'.log) = Len(limiter_use.log) + 1
    /\ limiter_use'.waiter[Caller].pc = "idle"

\* the caller sleeps in wait_for_token, and the clock and the rounds of the
\* run reach to its next round
WaitingInReach ==
    /\ limiter_use.waiter[Caller].pc = "sleep"
    /\ limiter_use.waiter[Caller].wake <= MaxTime
    /\ Len(limiter_use.log) < MaxAcquires

\* C23: wait_for_token(n) returns only in a step that takes n tokens out of
\* the refilled bucket, and a single caller asking for 1 <= n <=
\* requests_per_period that has to sleep returns in the end.
C23_WaitReturnsAfterConsuming ==
    /\ [][WaitReturns =>
            LET e == limiter_use'.log[Len(limiter_use'.log)] IN
            /\ e.ok
            /\ tokens' = refill_tokens(tokens, last_update, now).tokens - e.n * TokenUnit
            /\ tokens' >= 0]_vars
    /\ (WaitingInReach ~> limiter_use.waiter[Caller].pc = "idle")

\* the caller found the bucket short, slept, and returned from a later round
C23_Witness ==
    /\ limiter_use.waiter[Caller].pc = "idle"
    /\ \E k \in 1..(Len(limiter_use.log) - 1) :
            /\ ~limiter_use.log[k].ok
            /\ limiter_use.log[k + 1].ok
            /\ limiter_use.log[k + 1].n = limiter_use.log[k].n
            /\ limiter_use.log[k + 1].t > limiter_use.log[k].t
            /\ tokens < FullBucket

\* the call of p, admitted by the rate limiter, ends in this step without
\* a response: it raises or it is cancelled
EndsUnserved(p) ==
    /\ call[p].pc \in {"http", "backoff"}
    /\ call[p].tokens_taken > 0
    /\ call'[p].pc = "done"
    /\ call'[p].result.status \in {"error", "cancelled"}

\* C24: a step in which an admitted call fails, runs out of retries or is
\* cancelled leaves tokens and last_update as they were, and whenever tokens
\* goes up it goes up to no more than the refill for the time since
\* last_update gives.
C24_TokensNeverRefunded ==
    [][ /\ \A p \in Procs : EndsUnserved(p) =>
                tokens' = tokens /\ last_update' = last_update
        /\ tokens' > tokens =>
                /\ now > last_update
                /\ tokens' <= refill_tokens(tokens, last_update, now).tokens
                /\ last_update' = now ]_vars

\* a call that took its token and issued a request was cancelled, and the
\* bucket is still short of that token
C24_Witness ==
    \E p \in Procs :
        /\ call[p].pc = "done"
        /\ call[p].result.status = "cancelled"
        /\ call[p].tokens_taken = 1
        /\ call[p].http_count >= 1
        /\ tokens = FullBucket - TokenUnit
        /\ last_update = now

\* the call got no answer to give: its input was rejected, or the last HTTP
\* attempt of the client was not a 200 response with a decodable body whose
\* data parses
Unserved(c) ==
    /\ ~c.cache_hit
    /\ \/ InvalidInput(c)
       \/ c.last_outcome.kind # "response"
       \/ c.last_outcome.status # 200
       \/ ~c.last_outcome.json
       \/ c.last_outcome.data = MissingPrice

\* C25: a tool call that is over has returned one text and raised nothing;
\* when validation, the client or the parsing of the data raised, the text is
\* the "Error: ..." text made from that exception, and a text that is not an
\* error text is returned only when nothing was raised.
C25_ErrorsReturnedAsText ==
    \A p \in Procs :
        call[p].pc = "done" =>
            LET c == call[p]
                r == call[p].result
            IN
            /\ r.status \in {"ok", "error"}
            /\ r.status = "ok" => r.exc = NoExc /\ r.text.tool = c.tool
            /\ r.status = "error" => r.exc # NoExc /\ r.text = ErrorText
            /\ Unserved(c) => r.status = "error"
            /\ InvalidInput(c) => r.exc.type = "ValueError"
            /\ (~InvalidInput(c) /\ ~c.cache_hit /\ c.last_outcome.kind = "timeout")
                    => r.exc.type = "APITimeoutError"
            /\ (~InvalidInput(c) /\ ~c.cache_hit /\ c.last_outcome.data = MissingPrice)
                    => r.exc.type = "pydantic.ValidationError"

\* the client ran out of retries on timeouts and the tool returned the error
\* text for the APITimeoutError
C25_Witness ==
    \E p \in Procs :
        /\ call[p].pc = "done"
        /\ max_retries = 1
        /\ call[p].http_count = 2
        /\ call[p].last_outcome.kind = "timeout"
        /\ call[p].result.status = "error"
        /\ call[p].result.text = ErrorText
        /\ call[p].result.exc.type = "APITimeoutError"

\* the item matches the query: its name or its symbol contains it, letter
\* case apart
Matches(item, query) ==
    \/ Contains(StrLower(query), StrLower(item.name))
    \/ Contains(StrLower(query), StrLower(item.symbol))

\* C26: search_cryptocurrencies returns the first `limit` entries of the
\* directory that match the query, in the order of the directory, and never
\* more than `limit` entries.
C26_FirstLimitMatches ==
    search_use.pc = "done" =>
        LET matching == SelectSeq(search_use.directory,
                                  LAMBDA item : Matches(item, search_use.query))
        IN
        /\ search_use.results =
                SubSeq(matching, 1, Min(search_use.limit, Len(matching)))
        /\ Len(search_use.results) <= search_use.limit

\* the value is there and is not empty
PresentNonEmpty(val) == val.tag # "null" /\ ~(val.tag = "str" /\ val.s = <<>>)

\* C27: the parameters sent with a request are exactly the parameters of
\* the operation whose value is neither None nor empty, each unchanged and
\* in the order given.
C27_OnlyPresentNonEmptySent ==
    params_use.pc = "done" =>
        params_use.result =
            SelectSeq(params_use.params, LAMBDA it : PresentNonEmpty(it.val))

\* no key: not given or empty
NoApiKey(val) == val = NoneVal \/ val = StrVal(<<>>)

\* C28: constructing the client with no API key as argument and none in the
\* environment raises ConfigurationError and creates neither the HTTP client
\* nor the rate limiter (the bucket stays as it was); with a key, the
\* argument before the environment, the client is constructed.
C28_NoApiKeyRaisesFirst ==
    construction.pc = "done" =>
        IF NoApiKey(construction.api_key) /\ NoApiKey(construction.env)
        THEN /\ construction.raised.type = "ConfigurationError"
             /\ ~construction.client
             /\ ~construction.rate_limiter
             /\ tokens = 0
        ELSE /\ construction.raised = NoExc
             /\ construction.client
             /\ construction.rate_limiter
             /\ construction.self_api_key =
                    IF NoApiKey(construction.api_key) THEN construction.env
                    ELSE construction.api_key
             /\ tokens = FullBucket

\* api_key=None with the environment variable unset: ConfigurationError, and
\* nothing created
C28_Witness ==
    /\ construction.pc = "done"
    /\ construction.api_key = NoneVal
    /\ construction.env = NoneVal
    /\ construction.raised.type = "ConfigurationError"
    /\ ~construction.client
    /\ ~construction.rate_limiter

\* the logical call of p has been admitted by the rate limiter and has not
\* ended: a request is out (Attempting) or it sleeps before the next
\* (Retrying)
InRetryLoop(p) == call[p].pc \in {"http", "backoff"}

\* C29: a logical call issues at most max_retries + 1 HTTP requests, and once
\* it is admitted by the rate limiter it ends, whatever the outcomes of its
\* requests: in a returned response or in a raised error.
C29_BoundedAttemptsAndTermination ==
    /\ [](\A p \in Procs : call[p].http_count <= max_retries + 1)
    /\ \A p \in Procs :
            InRetryLoop(p) ~>
                (call[p].pc = "done" /\ call[p].result.status \in {"ok", "error"})

\* every request of the call failed and it ended after max_retries + 1 of
\* them, having slept between them
C29_Witness ==
    \E p \in Procs :
        /\ call[p].pc = "done"
        /\ max_retries = MaxRetries
        /\ call[p].http_count = max_retries + 1
        /\ Len(call[p].sleeps) = max_retries
        /\ call[p].result.status = "error"

\* an acquire is made in this step: by acquire itself or by a round of
\* wait_for_token
AcquireStep == Len(limiter_use'.log) = Len(limiter_use.log) + 1

\* C30: the rate limiter keeps no queue: an acquire, and so a round of
\* wait_for_token, succeeds exactly when the refilled bucket holds the tokens
\* asked for, whoever else is waiting and since when; so a caller that began
\* to wait later can be admitted while one that began earlier still waits.
C30_AdmissionNotFifo ==
    [][AcquireStep =>
            LET e == limiter_use'.log[Len(limiter_use'.log)] IN
            e.ok <=> refill_tokens(tokens, last_update, now).tokens >= e.n * TokenUnit]_vars

\* a caller sleeps in wait_for_token, and a call that began after its call
\* has been admitted
C30_Witness ==
    \E p \in Procs :
        /\ limiter_use.waiter[p].pc = "sleep"
        /\ limiter_use.waiter[p].n <= requests_per_period
        /\ \E k \in 1..Len(limiter_use.log) :
                /\ limiter_use.log[k].ok
                /\ limiter_use.log[k].n = limiter_use.waiter[p].n
                /\ limiter_use.log[k].began > limiter_use.waiter[p].began
                /\ \E q \in Procs \ {p} : limiter_use.waiter[q].pc = "idle"

\* the keys set and not deleted since whose ttl has not run out
LiveWritten(u, t) == {k \in WrittenKeys(u) : t < u.written[k].at + ttl_seconds}

C33_ClearForgetsEverything ==
    [][ /\ CacheOpStep("clear", NoKey) =>
                cache' = <<>> /\ get_stats(cache', stats', now).size = 0
        /\ \A k \in CacheKeys :
                (CacheOpStep("get", k) /\ k \in cache_use.cleared)
                => /\ cache_use'.last.ret = NoValue
                   /\ stats'.misses = stats.misses + 1
                   /\ stats'.hits = stats.hits ]_vars

\* a key was set, the cache was cleared while the entry was live, and the
\* get of the key that followed returned None
C33_Witness ==
    \E k \in CacheKeys :
        /\ cache_use.last.op = "get"
        /\ cache_use.last.key = k
        /\ cache_use.last.ret = NoValue
        /\ k \in cache_use.cleared
        /\ cache_use.ops = 3
        /\ stats.sets = 1
        /\ stats.misses = 1
        /\ now < ttl_seconds

\* C35: after any sequence of set, get, delete, clear and invalidate_pattern
\* the cache holds no more than max_size entries, expired ones that are
\* still stored included, and get_stats reports a size within max_size.
C35_SizeWithinMaxSize ==
    /\ Len(cache) <= max_size
    /\ get_stats(cache, stats, now).size <= max_size
    /\ \A i, j \in 1..Len(cache) : i # j => cache[i].key # cache[j].key

\* more keys have been set than the cache holds, and it is full
C35_Witness ==
    /\ cache_use.overflowed
    /\ stats.sets > max_size
    /\ Len(cache) = max_size
    /\ get_stats(cache, stats, now).size = max_size

\* C37: as long as no more keys were set than the cache holds, an entry
\* expires ttl_seconds after the latest set of its key, whatever gets came
\* in between: a get returns the value exactly while now is before that
\* time, and a set of a key that is there starts the time again.
C37_LifetimeFromLatestSet ==
    /\ [](~cache_use.overflowed =>
            \A i \in 1..Len(cache) :
                cache_use.written[cache[i].key].at >= 0 =>
                    cache[i].expires =
                        cache_use.written[cache[i].key].at + ttl_seconds)
    /\ [][\A k \in CacheKeys :
            ( /\ CacheOpStep("get", k)
              /\ cache_use.written[k].at >= 0
              /\ ~cache_use.overflowed )
            => /\ cache_use'.last.ret # NoValue
                    <=> now < cache_use.written[k].at + ttl_seconds
               /\ cache_use'.written = cache_use.written]_vars

\* a key was set once and read with a hit while it lived; ttl_seconds after
\* the set a get of it returned None
C37_Witness ==
    \E k \in CacheKeys :
        /\ cache_use.last.op = "get"
        /\ cache_use.last.key = k
        /\ cache_use.last.ret = NoValue
        /\ cache_use.ops = 3
        /\ stats.sets = 1
        /\ stats.hits = 1
        /\ stats.misses = 1
        /\ cache_use.written[k].at = 1
        /\ now = 1 + ttl_seconds

\* C38: wait_for_token(n) with n above the bucket's size never returns: the
\* refill caps the tokens at requests_per_period, so every acquire(n) made
\* for it fails, also on a full bucket, and from its first round on the
\* caller is asleep or in a round that puts it back to sleep.
C38_OversizedWaitNeverReturns ==
    /\ [](\A k \in 1..Len(limiter_use.log) :
            limiter_use.log[k].n > requests_per_period => ~limiter_use.log[k].ok)
    /\ [][\A p \in Procs :
            /\ ( /\ limiter_use.waiter[p].pc = "sleep"
                 /\ limiter_use.waiter[p].n > requests_per_period )
               => limiter_use'.waiter[p] # NoWaiter
            /\ ( /\ limiter_use.waiter[p].pc = "idle"
                 /\ limiter_use'.log # limiter_use.log
                 /\ limiter_use'.log[Len(limiter_use'.log)].began
                        = Len(limiter_use'.log)
                 /\ limiter_use'.log[Len(limiter_use'.log)].n > requests_per_period
                 /\ limiter_use'.waiter[p] # limiter_use.waiter[p] )
               => limiter_use'.waiter[p].pc = "sleep"]_vars

\* a caller of wait_for_token(n), n above the bucket's size, sleeps after two
\* failed rounds a period apart, the second of them on a full bucket
C38_Witness ==
    \E p \in Procs :
        /\ limiter_use.waiter[p].pc = "sleep"
        /\ limiter_use.waiter[p].n > requests_per_period
        /\ tokens = FullBucket
        /\ \E j, k \in 1..Len(limiter_use.log) :
                /\ j < k
                /\ limiter_use.log[j].began = limiter_use.waiter[p].began
                /\ limiter_use.log[k].began = limiter_use.waiter[p].began
                /\ limiter_use.log[j].n = limiter_use.waiter[p].n
                /\ limiter_use.log[k].n = limiter_use.waiter[p].n
                /\ limiter_use.log[k].t >= limiter_use.log[j].t + period_seconds
                /\ limiter_use.log[k].t = last_update
                /\ ~limiter_use.log[k].ok

\* the exception the except clauses record for the outcome o of an attempt
\* that is neither returned from nor raised out of the loop
Recorded(o) ==
    IF o.kind = "timeout" THEN Exc("APITimeoutError", 0, FALSE)
    ELSE IF o.kind = "connect" THEN Exc("APIConnectionError", 0, FALSE)
    ELSE Exc("APIError", o.status, TRUE)

\* the last attempt of the call c ended in an except clause that goes on to
\* the retry
FellThrough(c) ==
    /\ c.http_count >= 1
    /\ c.last_outcome.kind \in {"timeout", "connect"}
        \/ ( /\ c.last_outcome.kind = "response"
             /\ c.last_outcome.status \notin {200, 401, 429} )
        \/ ( /\ c.last_outcome.kind = "response"
             /\ c.last_outcome.status = 200
             /\ ~c.last_outcome.json )

\* C39: a logical call that made an attempt and left the retry loop without
\* returning raises the exception its last attempt recorded, never the
\* generic APIError("Max retries exceeded"); the generic error is raised
\* exactly by the calls that made no attempt, which happens when
\* max_retries < 0 only, and such a call has taken one token.
C39_GenericErrorOnlyWithoutAttempt ==
    \A p \in Procs :
        ( /\ call[p].pc = "done"
          /\ call[p].result.status = "error"
          /\ call[p].api_calls >= 1 )
        => /\ FellThrough(call[p])
                => call[p].result.exc = Recorded(call[p].last_outcome)
           /\ call[p].http_count >= 1
                => call[p].result.exc \notin {Exc("APIError", 0, FALSE), NoExc}
           /\ call[p].http_count = 0
                => /\ call[p].result.exc = Exc("APIError", 0, FALSE)
                   /\ max_retries < 0
                   /\ call[p].tokens_taken = 1
           /\ max_retries < 0 => call[p].http_count = 0

\* a call with max_retries = -1 waited for its token, took it, made no HTTP
\* request and raised the generic error
C39_Witness ==
    \E p \in Procs :
        /\ call[p].pc = "done"
        /\ max_retries < 0
        /\ call[p].http_count = 0
        /\ call[p].tokens_taken = 1
        /\ call[p].result.exc = Exc("APIError", 0, FALSE)
        /\ now > 0

\* the entries of the cache, whatever their recency order
Entries(c) == {c[i] : i \in 1..Len(c)}

\* caller p's invocation ends in this step with an error text
EndsFailed(p) ==
    /\ call[p].pc # "done"
    /\ call'[p].pc = "done"
    /\ call'[p].result.status = "error"

\* the invocations of p and q have the same tool and arguments
SameInvocation(p, q) ==
    /\ call[p].tool = call[q].tool
    /\ call[p].symbols = call[q].symbols
    /\ call[p].limit = call[q].limit
    /\ call[p].convert = call[q].convert

\* C36: a tool call that fails, on its arguments or on the upstream, writes
\* nothing to the cache: the step that ends it in an error leaves the cache
\* and its counters as they are, the only steps that add an entry or count a
\* set are the ends of successful calls, and no entry ever holds an error
\* text; so an identical call made after the failure is not served from the
\* cache, and when the failure was an upstream one it goes to the upstream
\* again.
C36_FailureWritesNothing ==
    /\ [](\A e \in Entries(cache) : e.value.tool # "Error")
    /\ [][\A p \in Procs : EndsFailed(p) => cache' = cache /\ stats' = stats]_vars
    /\ [][(stats'.sets # stats.sets \/ ~(Entries(cache') \subseteq Entries(cache)))
            => \E p \in Procs :
                    /\ call[p].pc = "http"
                    /\ call'[p].pc = "done"
                    /\ call'[p].result.status = "ok"
                    /\ stats'.sets = stats.sets + 1
                    /\ LET e == Entry(call'[p].cache_key, call'[p].result.text,
                                      now + ttl_seconds)
                       IN /\ e \in Entries(cache')
                          /\ Entries(cache') \ Entries(cache) \subseteq {e}]_vars
    /\ [][\A p, q \in Procs :
            ( /\ p # q
              /\ call[q].pc = "done"
              /\ call[q].result.status = "error"
              /\ call[p].pc = "pending"
              /\ call'[p].pc # "pending"
              /\ SameInvocation(p, q) )
            => /\ ~call'[p].cache_hit
               /\ stats'.hits = stats.hits
               /\ call[q].api_calls >= 1
                    => /\ call'[p].pc \in {"http", "wait_token"}
                       /\ call'[p].api_calls = 1]_vars

\* a call failed on the upstream after all its attempts while the other
\* caller's successful call had its text in the cache, which is still there;
\* nothing else was set
C36_Witness ==
    \E p, q \in Procs :
        /\ p # q
        /\ call[q].pc = "done"
        /\ call[q].result.status = "error"
        /\ call[q].http_count = max_retries + 1
        /\ call[p].pc = "done"
        /\ call[p].result.status = "ok"
        /\ ~call[p].cache_hit
        /\ stats.sets = 1
        /\ stats.misses = 2
        /\ Entries(cache) = {Entry(call[p].cache_key, call[p].result.text,
                                   call[p].set_at + ttl_seconds)}
        /\ now < call[p].set_at + ttl_seconds

\* both client operations of the get_market_statistics call c returned:
\* the global metrics it holds were decoded from a 200 answer and its last
\* answer is a 200 one that decodes into listings
BothSucceeded(c) ==
    /\ c.api_calls = 2
    /\ c.tokens_taken = 2
    /\ c.metrics # 0
    /\ parse_global_metrics(c.metrics) = NoExc
    /\ c.last_outcome.kind = "response"
    /\ c.last_outcome.status = 200
    /\ c.last_outcome.json
    /\ parse_cryptocurrency_data(c.last_outcome.data) = NoExc

\* C34: get_market_statistics fully succeeds or fully fails: a call that
\* is not served from the cache ends with the text of both the metrics and
\* the listings, and then both upstream calls have succeeded, or with an
\* error text; the step that ends it in an error leaves the cache and its
\* counters as they are, and an entry is added or a set counted only by the
\* step that ends a call whose two upstream calls have both succeeded,
\* which stores the text that call returns.
C34_StatisticsAllOrNothing ==
    /\ [](\A p \in Procs :
            (call[p].pc = "done" /\ ~call[p].cache_hit)
            => \/ /\ call[p].result.status = "ok"
                  /\ BothSucceeded(call[p])
                  /\ call[p].result.text =
                        StatisticsText(call[p], call[p].last_outcome.data)
               \/ /\ call[p].result.status = "error"
                  /\ call[p].result.text = ErrorText
                  /\ call[p].set_at = 0)
    /\ [][\A p \in Procs :
            ( /\ call[p].pc # "done"
              /\ call'[p].pc = "done"
              /\ call'[p].result.status = "error" )
            => cache' = cache /\ stats' = stats]_vars
    /\ [][(stats'.sets # stats.sets \/ \E i \in 1..Len(cache') :
                \A j \in 1..Len(cache) : cache[j] # cache'[i])
            => \E p \in Procs :
                    /\ call[p].pc = "http"
                    /\ call'[p].pc = "done"
                    /\ call'[p].result.status = "ok"
                    /\ BothSucceeded(call'[p])
                    /\ stats'.sets = stats.sets + 1
                    /\ \E i \in 1..Len(cache') :
                            cache'[i] = [key |-> call'[p].cache_key,
                                         value |-> call'[p].result.text,
                                         expires |-> now + ttl_seconds]]_vars

\* a call got its global metrics, failed on the listings after all its
\* attempts and returned an error; nothing was written to the cache
C34_Witness ==
    \E p \in Procs :
        /\ call[p].pc = "done"
        /\ call[p].result.status = "error"
        /\ call[p].api_calls = 2
        /\ call[p].metrics # 0
        /\ call[p].result.exc = Exc("APITimeoutError", 0, FALSE)
        /\ Len(call[p].sleeps) = max_retries
        /\ cache = <<>>
        /\ stats.sets = 0

\* caller p begins a call of the wrapped function with argument x in this step
CallBegins(p, x) ==
    /\ cached_use'.begun = cached_use.begun + 1
    /\ cached_use'.calls[p].no = cached_use'.begun
    /\ cached_use'.calls[p].arg = x

\* the awaited function of caller p's call returns in this step
CallResumes(p) ==
    /\ cached_use.calls[p].pc = "await"
    /\ cached_use'.calls[p].pc = "done"

\* C40: a wrapped function that returns None for x is never served from the
\* cache: every call with x counts a miss and no hit and executes the
\* function, also while the None stored by an earlier call is in the cache,
\* and when the function has returned the call performs a set and returns
\* None.
C40_NoneNeverServed ==
    [][\A p \in Procs, x \in Arguments :
          Func(x) = NoValue
          => /\ CallBegins(p, x)
                => /\ stats'.misses = stats.misses + 1
                   /\ stats'.hits = stats.hits
                   /\ cached_use'.executed[x] = cached_use.executed[x] + 1
                   /\ ~cached_use'.calls[p].hit
                   /\ IF cached_use.is_async
                        THEN /\ cached_use'.calls[p].pc = "await"
                             /\ stats'.sets = stats.sets
                        ELSE /\ cached_use'.calls[p].pc = "done"
                             /\ cached_use'.calls[p].result = NoValue
                             /\ stats'.sets = stats.sets + 1
             /\ (CallResumes(p) /\ cached_use.calls[p].arg = x)
                => /\ stats'.sets = stats.sets + 1
                   /\ cached_use'.calls[p].result = NoValue
                   /\ Live(cache', CachedKey(x), now)]_vars

\* the function returned None twice for the same argument within the ttl of
\* the first call's entry: two misses, two sets, no hit, and the None is in
\* the cache
C40_Witness ==
    \E x \in Arguments :
        /\ Func(x) = NoValue
        /\ cached_use.executed[x] = 2
        /\ cached_use.begun = 2
        /\ \A p \in Procs : cached_use.calls[p].pc = "done"
        /\ \A p \in Procs : cached_use.calls[p].arg = x
        /\ stats = [hits |-> 0, misses |-> 2, sets |-> 2, evictions |-> 0]
        /\ Live(cache, CachedKey(x), now)
        /\ cache[IndexOf(cache, CachedKey(x))].value = NoValue
        /\ now = 0

\* C31: a call of the wrapped function with an argument whose entry is live
\* returns the cached result without executing the function, so that the
\* function runs at most once for an argument while its entry lives, and
\* different arguments have different keys.
C31_AtMostOncePerArgument ==
    /\ [](\A x, y \in Arguments : x # y => CachedKey(x) # CachedKey(y))
    /\ [][\A p \in Procs, x \in Arguments :
            (CallBegins(p, x) /\ Live(cache, CachedKey(x), now))
            => /\ cached_use'.executed = cached_use.executed
               /\ cached_use'.calls[p].pc = "done"
               /\ cached_use'.calls[p].hit
               /\ cached_use'.calls[p].result =
                        cache[IndexOf(cache, CachedKey(x))].value
               /\ stats'.sets = stats.sets]_vars

====
